---- MODULE Spec2Model ----
(***************************************************************************)
(* School-Management-System backend: the credential store, the token      *)
(* service, the auth service and the role guard, as state machines.       *)
(* Time is counted in minutes.                                            *)
(***************************************************************************)
EXTENDS Integers, FiniteSets, Sequences, TLC

VARIABLES
  users,      \* the User collection: _id -> document
  nextId,     \* next ObjectId handed out by the User collection
  now,        \* wall clock (Date.now()), in minutes
  ticks,      \* how many times the clock has advanced
  held,       \* the refresh token a client holds (tokens are stateless and independent)
  last,       \* the response of the handler that ran last
  nextToken,  \* stands for crypto.randomBytes(32): the next fresh reset token
  rp,         \* resetPassword calls in flight: call -> position and locals
  classes,    \* the Class collection: _id -> document
  nextClassId, \* next ObjectId handed out by the Class collection
  subjects,   \* the Subject collection: _id -> document
  enrollments, \* the Enrollment collection: _id -> document
  exams,      \* the Exam collection: _id -> document
  grades,     \* the Grade collection: _id -> document
  announcements, \* the Announcement collection: _id -> document
  nextOid,    \* next ObjectId handed out to a document of these five collections
  inflight    \* service calls between their reads and their write: call -> locals

(* the collections of subjects, enrollments, exams, grades and announcements *)
docVars == <<subjects, enrollments, exams, grades, announcements, nextOid>>

(* what the services outside the auth and user modules leave alone *)
authVars == <<nextId, now, ticks, held, nextToken, rp>>

vars == <<users, nextId, now, ticks, held, last, nextToken, rp, classes, nextClassId,
          subjects, enrollments, exams, grades, announcements, nextOid, inflight>>

----------------------------------------------------------------------------
(* Bounds of the model *)
MaxUsers == 2
MaxResetTokens == 2
MaxClasses == 1
MaxTicks == 1
MaxDocs == 2
MaxAnnouncements == 1

(* Program constants *)
AccessTtl == 15
RefreshTtl == 10080
ResetTtl == 60

Roles == {"ADMIN", "TEACHER", "STUDENT", "PARENT"}
Statuses == {"ACTIVE", "INACTIVE", "SUSPENDED"}

(* Inputs the requests are drawn from *)
Emails == {"a@x.io", "A@x.io", "b@x.io"}
Passwords == {"pw1", "pw2"}
RoleInputs == {"STUDENT", "TEACHER"}
StatusInputs == {"ACTIVE", "SUSPENDED"}
Absent == ""

NoId == 0
NoTime == -1
NoResetToken == 0

----------------------------------------------------------------------------
(* userSchema.email: lowercase: true -- applied when a document field is  *)
(* set and when a query filter is cast.                                   *)
Lower(e) == IF e = "A@x.io" THEN "a@x.io" ELSE e

(* utils/password: salted hash and its comparison *)
hashPassword(pw) == <<"bcrypt", pw>>

comparePassword(pw, hash) == hash = hashPassword(pw)

(* utils/jwt: both tokens of a pair carry the same payload, are signed per *)
(* token class and expire after the class's TTL.                           *)
NoTok == [cls |-> "none", userId |-> NoId, email |-> Absent, role |-> Absent, exp |-> 0]

Garbage == [cls |-> "garbage", userId |-> NoId, email |-> Absent, role |-> Absent, exp |-> 0]

NoPair == [accessToken |-> NoTok, refreshToken |-> NoTok]

(* req.user before authenticate has set it *)
NoIdentity == [userId |-> NoId, email |-> Absent, role |-> Absent]

TokenPayload(uid, email, role) == [userId |-> uid, email |-> email, role |-> role]

PayloadOf(t) == [userId |-> t.userId, email |-> t.email, role |-> t.role]

generateTokenPair(p) ==
  [accessToken  |-> [cls |-> "access", userId |-> p.userId, email |-> p.email,
                     role |-> p.role, exp |-> now + AccessTtl],
   refreshToken |-> [cls |-> "refresh", userId |-> p.userId, email |-> p.email,
                     role |-> p.role, exp |-> now + RefreshTtl]]

verifyRefreshToken(t) == t.cls = "refresh" /\ now < t.exp

verifyAccessToken(t) == t.cls = "access" /\ now < t.exp

(* the access token issued together with refresh token t *)
AccessTwin(t) == [t EXCEPT !.cls = "access", !.exp = (t.exp - RefreshTtl) + AccessTtl]

----------------------------------------------------------------------------
(* The User collection *)
NewUser(email, pwHash, role, status) ==
  [email |-> Lower(email), passwordHash |-> pwHash, role |-> role, status |-> status,
   resetPasswordToken |-> NoResetToken, resetPasswordExpires |-> NoTime,
   lastLogin |-> NoTime, metaClass |-> NoId]

(* User.findOne({ email }) *)
FindByEmail(email) == {id \in DOMAIN users : users[id].email = Lower(email)}

PickUser(ids) == CHOOSE id \in ids : TRUE

(* User.findByIdAndUpdate(id, { lastLogin: new Date() }) *)
updateLastLogin(us, id) ==
  IF id \in DOMAIN us THEN [us EXCEPT ![id].lastLogin = now] ELSE us

(* the parts of a request body that the responses of the school services echo *)
NoReq ==
  [class |-> NoId, year |-> 0, list |-> <<>>, marks |-> 0, audience |-> Absent,
   role |-> Absent, search |-> Absent]

Resp(op, email, pw, tok, status, msg, uid, out) ==
  [op |-> op, email |-> email, pw |-> pw, tok |-> tok, status |-> status,
   msg |-> msg, uid |-> uid, out |-> out, reset |-> NoResetToken,
   caller |-> NoIdentity, data |-> {}, doc |-> NoId, req |-> NoReq]

(* a response to a request that carried a reset token *)
ResetResp(op, reset, pw, status, msg, uid) ==
  [Resp(op, Absent, pw, NoTok, status, msg, uid, NoPair) EXCEPT !.reset = reset]

(* two request slots: enough for two resetPassword calls to overlap *)
Calls == {"call1", "call2"}

(* a service call that is not running; a running one is between its reads and its write *)
Quiet ==
  [pc |-> "idle", op |-> Absent, id |-> NoId, arg |-> NoId, by |-> NoId, email |-> Absent]

Idle == [pc |-> "idle", uid |-> NoId, token |-> NoResetToken, pw |-> Absent]


----------------------------------------------------------------------------
Init ==
  /\ users = <<>>
  /\ nextId = 1
  /\ now = 0
  /\ ticks = 0
  /\ held = NoTok
  /\ last = Resp("init", Absent, Absent, NoTok, 0, "", NoId, NoPair)
  /\ nextToken = 1
  /\ rp = [c \in Calls |-> Idle]
  /\ classes = <<>>
  /\ nextClassId = 1
  /\ subjects = <<>>
  /\ enrollments = <<>>
  /\ exams = <<>>
  /\ grades = <<>>
  /\ announcements = <<>>
  /\ nextOid = 1
  /\ inflight = [c \in Calls |-> Quiet]

----------------------------------------------------------------------------
(* createUser without the pre-check on the email *)
createUserNoCheck(email, password, role, status) ==
  [err |-> FALSE, status |-> 201, msg |-> "",
   uid |-> nextId,
   users |-> (nextId :> NewUser(email, hashPassword(password), role,
                                IF status = Absent THEN "ACTIVE" ELSE status))
             @@ users]

(* UserService.createUser: pre-check on the email, then insert *)
createUser(email, password, role, status) ==
  IF FindByEmail(email) # {}
  THEN [err |-> TRUE, status |-> 400, msg |-> "User with this email already exists",
        uid |-> NoId, users |-> users]
  ELSE [err |-> FALSE, status |-> 201, msg |-> "",
        uid |-> nextId,
        users |-> (nextId :> NewUser(email, hashPassword(password), role,
                                     IF status = Absent THEN "ACTIVE" ELSE status))
                  @@ users]

(* register that puts the request's email, as typed, into the tokens *)
RegisterRawEmail(email, password, role) ==
  LET r == createUser(email, password, role, Absent) IN
  /\ r.err \/ nextId <= MaxUsers
  /\ IF r.err
     THEN /\ last' = Resp("register", email, Absent, NoTok, r.status, r.msg, NoId, NoPair)
          /\ UNCHANGED <<users, nextId, held>>
     ELSE LET tokens == generateTokenPair(TokenPayload(r.uid, email, role))
          IN /\ users' = updateLastLogin(r.users, r.uid)
             /\ nextId' = nextId + 1
             /\ last' = Resp("register", email, Absent, NoTok, 201, "User registered successfully",
                             r.uid, tokens)
             /\ held' = held
  /\ UNCHANGED <<now, ticks, nextToken, rp, classes, nextClassId, docVars, inflight>>

(* AuthService.register, answered by AuthController.register *)
Register(email, password, role) ==
  LET r == createUser(email, password, role, Absent) IN
  /\ r.err \/ nextId <= MaxUsers
  /\ IF r.err
     THEN /\ last' = Resp("register", email, Absent, NoTok, r.status, r.msg, NoId, NoPair)
          /\ UNCHANGED <<users, nextId, held>>
     ELSE LET user == r.users[r.uid]
              tokens == generateTokenPair(TokenPayload(r.uid, user.email, user.role))
          IN /\ users' = updateLastLogin(r.users, r.uid)
             /\ nextId' = nextId + 1
             /\ last' = Resp("register", email, Absent, NoTok, 201, "User registered successfully",
                             r.uid, tokens)
             /\ held' = held
  /\ UNCHANGED <<now, ticks, nextToken, rp, classes, nextClassId, docVars, inflight>>

(* UserService.createUser called by UserController.createUser *)
CreateUser(email, password, role, status) ==
  LET r == createUser(email, password, role, status) IN
  /\ r.err \/ nextId <= MaxUsers
  /\ users' = r.users
  /\ nextId' = IF r.err THEN nextId ELSE nextId + 1
  /\ last' = Resp("createUser", email, Absent, NoTok, r.status,
                  IF r.err THEN r.msg ELSE "User created successfully", r.uid, NoPair)
  /\ UNCHANGED <<now, ticks, held, nextToken, rp, classes, nextClassId, docVars, inflight>>

(* login without the status check *)
loginOutcomeNoStatus(email, password) ==
  LET found == FindByEmail(email) IN
  IF found = {}
  THEN [status |-> 401, msg |-> "Invalid email or password", uid |-> NoId]
  ELSE LET id == PickUser(found) IN
       IF ~comparePassword(password, users[id].passwordHash)
       THEN [status |-> 401, msg |-> "Invalid email or password", uid |-> NoId]
       ELSE [status |-> 200, msg |-> "Login successful", uid |-> id]

(* login that tells a wrong password apart from an unknown email *)
loginOutcomeTelling(email, password) ==
  LET found == FindByEmail(email) IN
  IF found = {}
  THEN [status |-> 401, msg |-> "Invalid email or password", uid |-> NoId]
  ELSE LET id == PickUser(found) IN
       IF users[id].status # "ACTIVE"
       THEN [status |-> 401, msg |-> "Account is not active", uid |-> NoId]
       ELSE IF ~comparePassword(password, users[id].passwordHash)
       THEN [status |-> 401, msg |-> "Incorrect password", uid |-> NoId]
       ELSE [status |-> 200, msg |-> "Login successful", uid |-> id]

(* AuthService.login: the outcome of the three checks *)
loginOutcome(email, password) ==
  LET found == FindByEmail(email) IN
  IF found = {}
  THEN [status |-> 401, msg |-> "Invalid email or password", uid |-> NoId]
  ELSE LET id == PickUser(found) IN
       IF users[id].status # "ACTIVE"
       THEN [status |-> 401, msg |-> "Account is not active", uid |-> NoId]
       ELSE IF ~comparePassword(password, users[id].passwordHash)
       THEN [status |-> 401, msg |-> "Invalid email or password", uid |-> NoId]
       ELSE [status |-> 200, msg |-> "Login successful", uid |-> id]

Login(email, password) ==
  LET o == loginOutcome(email, password) IN
  /\ IF o.status # 200
     THEN /\ last' = Resp("login", email, password, NoTok, o.status, o.msg, NoId, NoPair)
          /\ UNCHANGED <<users, held>>
     ELSE LET user == users[o.uid]
              tokens == generateTokenPair(TokenPayload(o.uid, user.email, user.role))
          IN /\ users' = updateLastLogin(users, o.uid)
             /\ last' = Resp("login", email, password, NoTok, 200, o.msg, o.uid, tokens)
             /\ held' = held
  /\ UNCHANGED <<nextId, now, ticks, nextToken, rp, classes, nextClassId, docVars, inflight>>

(* refresh that copies the presented token's payload instead of reading the user *)
refreshOutcomeCopy(t) ==
  IF ~verifyRefreshToken(t)
  THEN [status |-> 401, msg |-> "Invalid refresh token", out |-> NoPair]
  ELSE IF t.userId \notin DOMAIN users \/ users[t.userId].status # "ACTIVE"
  THEN [status |-> 401, msg |-> "Invalid refresh token", out |-> NoPair]
  ELSE [status |-> 200, msg |-> "Token refreshed successfully",
        out |-> generateTokenPair(PayloadOf(t))]

(* refresh that checks only that the user exists *)
refreshOutcomeNoStatus(t) ==
  IF ~verifyRefreshToken(t)
  THEN [status |-> 401, msg |-> "Invalid refresh token", out |-> NoPair]
  ELSE IF t.userId \notin DOMAIN users
  THEN [status |-> 401, msg |-> "Invalid refresh token", out |-> NoPair]
  ELSE LET user == users[t.userId] IN
       [status |-> 200, msg |-> "Token refreshed successfully",
        out |-> generateTokenPair(TokenPayload(t.userId, user.email, user.role))]

(* AuthService.refreshToken: every failure is rethrown as the same error *)
refreshOutcome(t) ==
  IF ~verifyRefreshToken(t)
  THEN [status |-> 401, msg |-> "Invalid refresh token", out |-> NoPair]
  ELSE IF t.userId \notin DOMAIN users \/ users[t.userId].status # "ACTIVE"
  THEN [status |-> 401, msg |-> "Invalid refresh token", out |-> NoPair]
  ELSE LET user == users[t.userId] IN
       [status |-> 200, msg |-> "Token refreshed successfully",
        out |-> generateTokenPair(TokenPayload(t.userId, user.email, user.role))]

RefreshToken(t) ==
  LET o == refreshOutcome(t) IN
  /\ last' = Resp("refresh", Absent, Absent, t, o.status, o.msg, t.userId, o.out)
  /\ UNCHANGED <<users, nextId, now, ticks, held, nextToken, rp, classes, nextClassId, docVars, inflight>>

(* a client stores the refresh token of the response it has just received *)
ClientKeepsToken ==
  /\ last.out # NoPair
  /\ held' = last.out.refreshToken
  /\ held' # held
  /\ UNCHANGED <<users, nextId, now, ticks, last, nextToken, rp, classes, nextClassId, docVars, inflight>>

(* UserService.updateUser; upd holds the optional email, role and status *)
updateUser(id, upd) ==
  IF id \notin DOMAIN users
  THEN [status |-> 404, msg |-> "User not found", users |-> users]
  ELSE IF upd.email # Absent /\ upd.email # users[id].email /\ FindByEmail(upd.email) # {}
  THEN [status |-> 400, msg |-> "User with this email already exists", users |-> users]
  ELSE [status |-> 200, msg |-> "User updated successfully",
        users |-> [users EXCEPT
           ![id].email  = IF upd.email = Absent THEN @ ELSE Lower(upd.email),
           ![id].role   = IF upd.role = Absent THEN @ ELSE upd.role,
           ![id].status = IF upd.status = Absent THEN @ ELSE upd.status]]

UpdateUser(id, upd) ==
  LET r == updateUser(id, upd) IN
  /\ users' = r.users
  /\ last' = Resp("updateUser", Absent, Absent, NoTok, r.status, r.msg, id, NoPair)
  /\ UNCHANGED <<nextId, now, ticks, held, nextToken, rp, classes, nextClassId, docVars, inflight>>

(* UserService.deleteUser *)
deleteUser(id) ==
  IF id \notin DOMAIN users
  THEN [status |-> 404, msg |-> "User not found", users |-> users]
  ELSE [status |-> 200, msg |-> "User deleted successfully",
        users |-> [i \in DOMAIN users \ {id} |-> users[i]]]

DeleteUser(id) ==
  LET r == deleteUser(id) IN
  /\ users' = r.users
  /\ last' = Resp("deleteUser", Absent, Absent, NoTok, r.status, r.msg, id, NoPair)
  /\ UNCHANGED <<nextId, now, ticks, held, nextToken, rp, classes, nextClassId, docVars, inflight>>

(* the clock advances *)
Tick(d) ==
  /\ ticks < MaxTicks
  /\ ticks' = ticks + 1
  /\ now' = now + d
  /\ last' = Resp("tick", Absent, Absent, NoTok, 0, "", NoId, NoPair)
  /\ UNCHANGED <<users, nextId, held, nextToken, rp, classes, nextClassId, docVars, inflight>>

UserIds == 1..MaxUsers

(* request bodies of PATCH /users/:id: one optional field at a time *)
Updates ==
  {u \in [email : {Absent} \cup Emails, role : {Absent} \cup RoleInputs,
          status : {Absent} \cup StatusInputs] :
     Cardinality({f \in {"email", "role", "status"} : u[f] # Absent}) <= 1}

(* what a client can put in the body of POST /auth/refresh *)
PresentedTokens ==
  IF held = NoTok THEN {Garbage} ELSE {held, AccessTwin(held), Garbage}

Next ==
  \/ \E e \in Emails, p \in Passwords, r \in RoleInputs : Register(e, p, r)
  \/ \E e \in Emails, p \in Passwords : Login(e, p)
  \/ \E id \in UserIds, u \in Updates : UpdateUser(id, u)
  \/ \E id \in UserIds : DeleteUser(id)
  \/ \E d \in {RefreshTtl} : Tick(d)

Spec == Init /\ [][Next]_vars

(* token refresh: clients that keep and present tokens, and the operations on the store *)
NextRefresh ==
  \/ \E e \in Emails, r \in RoleInputs : Register(e, "pw1", r)
  \/ \E e \in Emails : Login(e, "pw1")
  \/ ClientKeepsToken
  \/ \E t \in PresentedTokens : RefreshToken(t)
  \/ \E id \in UserIds, u \in Updates : UpdateUser(id, u)
  \/ \E id \in UserIds : DeleteUser(id)
  \/ \E d \in {RefreshTtl} : Tick(d)

SpecRefresh == Init /\ [][NextRefresh]_vars

----------------------------------------------------------------------------
(* Password reset *)

(* AuthService.forgotPassword; mailOk is the outcome of the mail transport.   *)
(* sendEmail rethrows a transport failure as a plain Error, which reaches the *)
(* caller through next(error) as a server error (500).                       *)
ForgotPassword(email, mailOk) ==
  LET found == FindByEmail(email) IN
  /\ IF found = {}
     THEN /\ last' = Resp("forgotPassword", email, Absent, NoTok, 200,
                          "If the email exists, a password reset link has been sent", NoId, NoPair)
          /\ UNCHANGED <<users, nextToken>>
     ELSE LET id == PickUser(found) IN
          /\ nextToken <= MaxResetTokens
          /\ users' = [users EXCEPT ![id].resetPasswordToken = nextToken,
                                    ![id].resetPasswordExpires = now + ResetTtl]
          /\ nextToken' = nextToken + 1
          /\ last' = IF mailOk
                     THEN Resp("forgotPassword", email, Absent, NoTok, 200,
                               "If the email exists, a password reset link has been sent", id, NoPair)
                     ELSE Resp("forgotPassword", email, Absent, NoTok, 500,
                               "Failed to send email", id, NoPair)
  /\ UNCHANGED <<nextId, now, ticks, held, rp, classes, nextClassId, docVars, inflight>>

(* the lookup without the condition on the expiry *)
findResetUserAnyTime(token) ==
  {id \in DOMAIN users : users[id].resetPasswordToken = token}

(* User.findOne({ resetPasswordToken: token, resetPasswordExpires: { $gt: new Date() } }) *)
findResetUser(token) ==
  {id \in DOMAIN users : /\ users[id].resetPasswordToken = token
                         /\ users[id].resetPasswordExpires > now}

(* AuthService.resetPassword up to its first await: the lookup and the throw. *)
(* The response is written by ResetFind when the call fails (status 400) and *)
(* by ResetClear when it completes; status 0 is a call still in flight.      *)
ResetFind(c, token, password) ==
  LET found == findResetUser(token) IN
  /\ rp[c].pc = "idle"
  /\ IF found = {}
     THEN /\ last' = ResetResp("resetPassword", token, password, 400,
                               "Invalid or expired reset token", NoId)
          /\ rp' = rp
     ELSE /\ rp' = [rp EXCEPT ![c] = [pc |-> "found", uid |-> PickUser(found),
                                       token |-> token, pw |-> password]]
          /\ last' = ResetResp("resetPassword", token, Absent, 0, "", NoId)
  /\ UNCHANGED <<users, nextId, now, ticks, held, nextToken, classes, nextClassId, docVars, inflight>>

(* UserService.updateUserPassword: findByIdAndUpdate(id, { passwordHash }) *)
updateUserPassword(id, newPassword) ==
  IF id \in DOMAIN users
  THEN [users EXCEPT ![id].passwordHash = hashPassword(newPassword)]
  ELSE users

ResetUpdatePassword(c) ==
  /\ rp[c].pc = "found"
  /\ users' = updateUserPassword(rp[c].uid, rp[c].pw)
  /\ rp' = [rp EXCEPT ![c].pc = "updated"]
  /\ last' = ResetResp("resetPassword.await", NoResetToken, Absent, 0, "", NoId)
  /\ UNCHANGED <<nextId, now, ticks, held, nextToken, classes, nextClassId, docVars, inflight>>

(* findByIdAndUpdate(id, { resetPasswordToken: undefined, resetPasswordExpires: undefined }): *)
(* the ODM either writes null for an undefined value or drops the key from the update,      *)
(* depending on its version; the repository does not pin one.                              *)
clearResetToken(id) ==
  IF id \in DOMAIN users
  THEN {[users EXCEPT ![id].resetPasswordToken = NoResetToken,
                      ![id].resetPasswordExpires = NoTime],
        users}
  ELSE {users}

ResetClear(c) ==
  /\ rp[c].pc = "updated"
  /\ users' \in clearResetToken(rp[c].uid)
  /\ rp' = [rp EXCEPT ![c] = Idle]
  /\ last' = ResetResp("resetPassword.done", rp[c].token, rp[c].pw, 200,
                       "Password reset successful", rp[c].uid)
  /\ UNCHANGED <<nextId, now, ticks, held, nextToken, classes, nextClassId, docVars, inflight>>

ResetTokens == 1..MaxResetTokens

NextReset ==
  \/ \E e \in Emails, p \in Passwords : CreateUser(e, p, "STUDENT", Absent)
  \/ \E e \in Emails, ok \in BOOLEAN : ForgotPassword(e, ok)
  \/ \E c \in Calls, t \in ResetTokens, p \in Passwords : ResetFind(c, t, p)
  \/ \E c \in Calls : ResetUpdatePassword(c)
  \/ \E c \in Calls : ResetClear(c)
  \/ \E d \in {ResetTtl} : Tick(d)

SpecReset == Init /\ [][NextReset]_vars

----------------------------------------------------------------------------
(* Authentication and the role guard in front of the routes *)

DefaultCapacity == 30
NoCapacity == 0
RequireRolesArity == 4

requireAdmin == {"ADMIN"}
requireTeacher == {"TEACHER", "ADMIN"}

Pass(user) == [status |-> 0, msg |-> "", user |-> user]

Reject(status, msg, user) == [status |-> status, msg |-> msg, user |-> user]

(* middleware/auth authenticate; bearer is NoTok when the header is missing *)
authenticate(bearer) ==
  IF bearer = NoTok
  THEN Reject(401, "Access token required", NoIdentity)
  ELSE IF ~verifyAccessToken(bearer)
  THEN Reject(401, "Invalid or expired token", NoIdentity)
  ELSE Pass(PayloadOf(bearer))

(* the function requireRoles(...roles) returns, when it is called *)
requireRoles(roles, user) ==
  IF user = NoIdentity
  THEN Reject(401, "Authentication required", user)
  ELSE IF user.role \notin roles
  THEN Reject(403, "Insufficient permissions", user)
  ELSE Pass(user)

(* How the router treats the function requireRoles returns: it is declared with *)
(* four parameters (req, res, Response, next), and Express calls a route        *)
(* middleware on a request only when it declares at most three; one with four  *)
(* is an error handler and the request passes it by.                           *)
roleGuard(roles, user) ==
  IF RequireRolesArity > 3 THEN Pass(user) ELSE requireRoles(roles, user)

(* router.use(authenticate), then the guard the route declares *)
admit(bearer, roles) ==
  LET a == authenticate(bearer) IN
  IF a.status # 0 THEN a ELSE roleGuard(roles, a.user)

GuardedResp(op, caller, status, msg, uid) ==
  [Resp(op, Absent, Absent, NoTok, status, msg, uid, NoPair) EXCEPT !.caller = caller]

(* ClassService.createClass *)
createClass(name, section, year, classTeacher, capacity) ==
  IF \E c \in DOMAIN classes :
        classes[c].name = name /\ classes[c].section = section /\ classes[c].year = year
  THEN [status |-> 400, msg |-> "Class with this name, section, and year already exists",
        classes |-> classes]
  ELSE IF classTeacher \notin DOMAIN users
  THEN [status |-> 404, msg |-> "Class teacher not found", classes |-> classes]
  ELSE IF users[classTeacher].role # "TEACHER"
  THEN [status |-> 400, msg |-> "Class teacher must have TEACHER role", classes |-> classes]
  ELSE [status |-> 201, msg |-> "Class created successfully",
        classes |-> (nextClassId :>
                       [name |-> name, section |-> section, year |-> year,
                        classTeacher |-> classTeacher, students |-> <<>>, subjects |-> <<>>,
                        capacity |-> IF capacity = NoCapacity THEN DefaultCapacity ELSE capacity,
                        status |-> "ACTIVE"])
                    @@ classes]

(* deleteClass without the check on the student list *)
deleteClassNoCheck(id) ==
  IF id \notin DOMAIN classes
  THEN [status |-> 404, msg |-> "Class not found", classes |-> classes]
  ELSE [status |-> 200, msg |-> "Class deleted successfully",
        classes |-> [c \in DOMAIN classes \ {id} |-> classes[c]]]

(* ClassService.deleteClass *)
deleteClass(id) ==
  IF id \notin DOMAIN classes
  THEN [status |-> 404, msg |-> "Class not found", classes |-> classes]
  ELSE IF Len(classes[id].students) > 0
  THEN [status |-> 400, msg |-> "Cannot delete class with enrolled students",
        classes |-> classes]
  ELSE [status |-> 200, msg |-> "Class deleted successfully",
        classes |-> [c \in DOMAIN classes \ {id} |-> classes[c]]]

(* POST /classes: requireTeacher, classController.createClass *)
HttpCreateClass(bearer, section, classTeacher, capacity) ==
  LET g == admit(bearer, requireTeacher)
      r == createClass("Grade 1", section, 2024, classTeacher, capacity)
  IN
  /\ g.status # 0 \/ r.status # 201 \/ nextClassId <= MaxClasses
  /\ IF g.status # 0
     THEN /\ last' = GuardedResp("POST /classes", g.user, g.status, g.msg, NoId)
          /\ UNCHANGED <<classes, nextClassId>>
     ELSE /\ classes' = r.classes
          /\ nextClassId' = IF r.status = 201 THEN nextClassId + 1 ELSE nextClassId
          /\ last' = GuardedResp("POST /classes", g.user, r.status, r.msg, NoId)
  /\ UNCHANGED <<users, nextId, now, ticks, held, nextToken, rp, docVars, inflight>>

(* DELETE /classes/:id: requireAdmin, classController.deleteClass *)
HttpDeleteClass(bearer, id) ==
  LET g == admit(bearer, requireAdmin)
      r == deleteClass(id)
  IN
  /\ IF g.status # 0
     THEN /\ last' = GuardedResp("DELETE /classes/:id", g.user, g.status, g.msg, id)
          /\ classes' = classes
     ELSE /\ classes' = r.classes
          /\ last' = GuardedResp("DELETE /classes/:id", g.user, r.status, r.msg, id)
  /\ UNCHANGED <<users, nextId, now, ticks, held, nextToken, rp, nextClassId, docVars, inflight>>

(* PATCH /users/:id: requireAdmin, userController.updateUser *)
HttpUpdateUser(bearer, id, upd) ==
  LET g == admit(bearer, requireAdmin)
      r == updateUser(id, upd)
  IN
  /\ IF g.status # 0
     THEN /\ last' = GuardedResp("PATCH /users/:id", g.user, g.status, g.msg, id)
          /\ users' = users
     ELSE /\ users' = r.users
          /\ last' = GuardedResp("PATCH /users/:id", g.user, r.status, r.msg, id)
  /\ UNCHANGED <<nextId, now, ticks, held, nextToken, rp, classes, nextClassId, docVars, inflight>>

(* DELETE /users/:id: requireAdmin, userController.deleteUser *)
HttpDeleteUser(bearer, id) ==
  LET g == admit(bearer, requireAdmin)
      r == deleteUser(id)
  IN
  /\ IF g.status # 0
     THEN /\ last' = GuardedResp("DELETE /users/:id", g.user, g.status, g.msg, id)
          /\ users' = users
     ELSE /\ users' = r.users
          /\ last' = GuardedResp("DELETE /users/:id", g.user, r.status, r.msg, id)
  /\ UNCHANGED <<nextId, now, ticks, held, nextToken, rp, classes, nextClassId, docVars, inflight>>

(* a response whose body carries the records of the users in data *)
DataResp(op, caller, status, msg, uid, data) ==
  [GuardedResp(op, caller, status, msg, uid) EXCEPT !.data = data]

(* UserService.getUsers: the users that match the optional role filter *)
getUsers(role) ==
  {id \in DOMAIN users : role = Absent \/ users[id].role = role}

(* UserService.getUserById *)
getUserById(id) ==
  IF id \notin DOMAIN users
  THEN [status |-> 404, msg |-> "User not found", data |-> {}]
  ELSE [status |-> 200, msg |-> "", data |-> {id}]

(* GET /users: requireAdmin, userController.getUsers *)
HttpGetUsers(bearer, role) ==
  LET g == admit(bearer, requireAdmin) IN
  /\ last' = IF g.status # 0
             THEN GuardedResp("GET /users", g.user, g.status, g.msg, NoId)
             ELSE DataResp("GET /users", g.user, 200, "", NoId, getUsers(role))
  /\ UNCHANGED <<users, nextId, now, ticks, held, nextToken, rp, classes, nextClassId, docVars, inflight>>

(* GET /users/:id: no role guard on the route, userController.getUserById *)
HttpGetUserById(bearer, id) ==
  LET g == authenticate(bearer)
      r == getUserById(id)
  IN
  /\ last' = IF g.status # 0
             THEN GuardedResp("GET /users/:id", g.user, g.status, g.msg, id)
             ELSE DataResp("GET /users/:id", g.user, r.status, r.msg, id, r.data)
  /\ UNCHANGED <<users, nextId, now, ticks, held, nextToken, rp, classes, nextClassId, docVars, inflight>>

(* POST /users: requireAdmin, userController.createUser *)
HttpCreateUser(bearer, email, password, role, status) ==
  LET g == admit(bearer, requireAdmin)
      r == createUser(email, password, role, status)
  IN
  /\ g.status # 0 \/ r.err \/ nextId <= MaxUsers
  /\ IF g.status # 0
     THEN /\ last' = GuardedResp("POST /users", g.user, g.status, g.msg, NoId)
          /\ UNCHANGED <<users, nextId>>
     ELSE /\ users' = r.users
          /\ nextId' = IF r.err THEN nextId ELSE nextId + 1
          /\ last' = DataResp("POST /users", g.user, r.status,
                              IF r.err THEN r.msg ELSE "User created successfully",
                              r.uid, IF r.err THEN {} ELSE {r.uid})
  /\ UNCHANGED <<now, ticks, held, nextToken, rp, classes, nextClassId, docVars, inflight>>

(* what a client can put in the Authorization header *)
Bearers ==
  {NoTok, Garbage} \cup (IF held = NoTok THEN {} ELSE {AccessTwin(held), held})

ClassIds == 1..MaxClasses

RoleUpdates == {u \in Updates : u.email = Absent /\ u.status = Absent /\ u.role # Absent}

NextGuard ==
  \/ \E e \in {"a@x.io", "b@x.io"}, r \in Roles : Register(e, "pw1", r)
  \/ ClientKeepsToken
  \/ \E b \in Bearers, sec \in {"A"}, t \in UserIds, cap \in {NoCapacity, 2} :
        HttpCreateClass(b, sec, t, cap)
  \/ \E b \in Bearers, id \in ClassIds : HttpDeleteClass(b, id)
  \/ \E b \in Bearers, id \in UserIds, u \in RoleUpdates : HttpUpdateUser(b, id, u)
  \/ \E b \in Bearers, id \in UserIds : HttpDeleteUser(b, id)
  \/ \E d \in {AccessTtl} : Tick(d)

SpecGuard == Init /\ [][NextGuard]_vars

(* the user router: five routes behind authenticate *)
NextUsers ==
  \/ \E e \in {"a@x.io", "b@x.io"}, r \in Roles : Register(e, "pw1", r)
  \/ ClientKeepsToken
  \/ \E b \in Bearers, q \in {Absent, "STUDENT"} : HttpGetUsers(b, q)
  \/ \E b \in Bearers, id \in UserIds : HttpGetUserById(b, id)
  \/ \E b \in Bearers, e \in {"a@x.io", "b@x.io"}, r \in RoleInputs :
        HttpCreateUser(b, e, "pw1", r, Absent)
  \/ \E b \in Bearers, id \in UserIds, u \in RoleUpdates : HttpUpdateUser(b, id, u)
  \/ \E b \in Bearers, id \in UserIds : HttpDeleteUser(b, id)
  \/ \E d \in {AccessTtl} : Tick(d)

SpecUsers == Init /\ [][NextUsers]_vars

----------------------------------------------------------------------------
(* The class service *)

(* a response to a request that addresses document doc and user uid *)
DocResp(op, doc, uid, status, msg) ==
  [Resp(op, Absent, Absent, NoTok, status, msg, uid, NoPair) EXCEPT !.doc = doc]

(* UserService.createUser for the school's members; the store is bounded by *)
(* the emails the members are drawn from.                                   *)
CreateMember(email, role) ==
  LET r == createUser(email, "pw1", role, Absent) IN
  /\ ~r.err
  /\ users' = r.users
  /\ nextId' = nextId + 1
  /\ last' = Resp("createUser", email, Absent, NoTok, r.status, "User created successfully",
                  r.uid, NoPair)
  /\ UNCHANGED <<now, ticks, held, nextToken, rp, classes, nextClassId, docVars, inflight>>

CreateClass(section, classTeacher, capacity) ==
  LET r == createClass("Grade 1", section, 2024, classTeacher, capacity) IN
  /\ r.status # 201 \/ nextClassId <= MaxClasses
  /\ classes' = r.classes
  /\ nextClassId' = IF r.status = 201 THEN nextClassId + 1 ELSE nextClassId
  /\ last' = DocResp("createClass", IF r.status = 201 THEN nextClassId ELSE NoId,
                     classTeacher, r.status, r.msg)
  /\ UNCHANGED <<users, nextId, now, ticks, held, nextToken, rp, docVars, inflight>>

(* the fields of updateClassSchema.body that are absent from a request *)
NoClassUpdate ==
  [name |-> Absent, section |-> Absent, year |-> 0, classTeacher |-> NoId,
   capacity |-> NoCapacity]

(* ClassService.updateClass: Object.assign(classData, updateData), then save *)
updateClass(id, upd) ==
  IF id \notin DOMAIN classes
  THEN [status |-> 404, msg |-> "Class not found", classes |-> classes]
  ELSE IF /\ upd.name # Absent /\ upd.section # Absent /\ upd.year # 0
          /\ \E c \in DOMAIN classes \ {id} :
                /\ classes[c].name = upd.name
                /\ classes[c].section = upd.section
                /\ classes[c].year = upd.year
  THEN [status |-> 400, msg |-> "Class with this name, section, and year already exists",
        classes |-> classes]
  ELSE IF upd.classTeacher # NoId /\ upd.classTeacher \notin DOMAIN users
  THEN [status |-> 404, msg |-> "Class teacher not found", classes |-> classes]
  ELSE IF upd.classTeacher # NoId /\ users[upd.classTeacher].role # "TEACHER"
  THEN [status |-> 400, msg |-> "Class teacher must have TEACHER role", classes |-> classes]
  ELSE [status |-> 200, msg |-> "Class updated successfully",
        classes |-> [classes EXCEPT
           ![id].name = IF upd.name = Absent THEN @ ELSE upd.name,
           ![id].section = IF upd.section = Absent THEN @ ELSE upd.section,
           ![id].year = IF upd.year = 0 THEN @ ELSE upd.year,
           ![id].classTeacher = IF upd.classTeacher = NoId THEN @ ELSE upd.classTeacher,
           ![id].capacity = IF upd.capacity = NoCapacity THEN @ ELSE upd.capacity]]

UpdateClass(id, upd) ==
  LET r == updateClass(id, upd) IN
  /\ classes' = r.classes
  /\ last' = DocResp("updateClass", id, NoId, r.status, r.msg)
  /\ UNCHANGED <<users, nextId, now, ticks, held, nextToken, rp, nextClassId, docVars, inflight>>

DeleteClass(id) ==
  LET r == deleteClass(id) IN
  /\ classes' = r.classes
  /\ last' = DocResp("deleteClass", id, NoId, r.status, r.msg)
  /\ UNCHANGED <<users, nextId, now, ticks, held, nextToken, rp, nextClassId, docVars, inflight>>

(* classData.students.includes(studentId) *)
Includes(seq, x) == \E i \in 1..Len(seq) : seq[i] = x

(* User.findByIdAndUpdate(studentId, { 'meta.class': classId }) and the $unset *)
setMetaClass(id, classId) ==
  IF id \in DOMAIN users THEN [users EXCEPT ![id].metaClass = classId] ELSE users

(* addStudentToClass that admits members up to and including capacity + 1 *)
addStudentToClassOffByOne(classId, studentId) ==
  IF classId \notin DOMAIN classes
  THEN [status |-> 404, msg |-> "Class not found", classes |-> classes, users |-> users]
  ELSE IF studentId \notin DOMAIN users
  THEN [status |-> 404, msg |-> "Student not found", classes |-> classes, users |-> users]
  ELSE IF users[studentId].role # "STUDENT"
  THEN [status |-> 400, msg |-> "User must have STUDENT role", classes |-> classes,
        users |-> users]
  ELSE IF Includes(classes[classId].students, studentId)
  THEN [status |-> 400, msg |-> "Student is already enrolled in this class",
        classes |-> classes, users |-> users]
  ELSE IF Len(classes[classId].students) > classes[classId].capacity
  THEN [status |-> 400, msg |-> "Class is at maximum capacity", classes |-> classes,
        users |-> users]
  ELSE [status |-> 200, msg |-> "Student added to class successfully",
        classes |-> [classes EXCEPT ![classId].students = Append(@, studentId)],
        users |-> setMetaClass(studentId, classId)]

(* ClassService.addStudentToClass *)
addStudentToClass(classId, studentId) ==
  IF classId \notin DOMAIN classes
  THEN [status |-> 404, msg |-> "Class not found", classes |-> classes, users |-> users]
  ELSE IF studentId \notin DOMAIN users
  THEN [status |-> 404, msg |-> "Student not found", classes |-> classes, users |-> users]
  ELSE IF users[studentId].role # "STUDENT"
  THEN [status |-> 400, msg |-> "User must have STUDENT role", classes |-> classes,
        users |-> users]
  ELSE IF Includes(classes[classId].students, studentId)
  THEN [status |-> 400, msg |-> "Student is already enrolled in this class",
        classes |-> classes, users |-> users]
  ELSE IF Len(classes[classId].students) >= classes[classId].capacity
  THEN [status |-> 400, msg |-> "Class is at maximum capacity", classes |-> classes,
        users |-> users]
  ELSE [status |-> 200, msg |-> "Student added to class successfully",
        classes |-> [classes EXCEPT ![classId].students = Append(@, studentId)],
        users |-> setMetaClass(studentId, classId)]

AddStudentToClass(classId, studentId) ==
  LET r == addStudentToClass(classId, studentId) IN
  /\ classes' = r.classes
  /\ users' = r.users
  /\ last' = DocResp("addStudentToClass", classId, studentId, r.status, r.msg)
  /\ UNCHANGED <<nextId, now, ticks, held, nextToken, rp, nextClassId, docVars, inflight>>

(* students.filter((id) => id.toString() !== studentId) *)
RECURSIVE Without(_, _)
Without(seq, x) ==
  IF seq = <<>> THEN <<>>
  ELSE IF Head(seq) = x THEN Without(Tail(seq), x)
  ELSE <<Head(seq)>> \o Without(Tail(seq), x)

(* ClassService.removeStudentFromClass *)
removeStudentFromClass(classId, studentId) ==
  IF classId \notin DOMAIN classes
  THEN [status |-> 404, msg |-> "Class not found", classes |-> classes, users |-> users]
  ELSE [status |-> 200, msg |-> "Student removed from class successfully",
        classes |-> [classes EXCEPT ![classId].students = Without(@, studentId)],
        users |-> setMetaClass(studentId, NoId)]

RemoveStudentFromClass(classId, studentId) ==
  LET r == removeStudentFromClass(classId, studentId) IN
  /\ classes' = r.classes
  /\ users' = r.users
  /\ last' = DocResp("removeStudentFromClass", classId, studentId, r.status, r.msg)
  /\ UNCHANGED <<nextId, now, ticks, held, nextToken, rp, nextClassId, docVars, inflight>>

(* the members of the school: one teacher and two students *)
Members == {<<"a@x.io", "TEACHER">>, <<"b@x.io", "STUDENT">>, <<"c@x.io", "STUDENT">>}

(* ids a request can name: those stored and one that is not *)
KnownUserIds == DOMAIN users \cup {nextId}

(* request bodies of PATCH /classes/:id *)
ClassUpdates ==
  {[NoClassUpdate EXCEPT !.capacity = c] : c \in {1, 2}}
  \cup {[NoClassUpdate EXCEPT !.classTeacher = t] : t \in KnownUserIds}
  \cup {[NoClassUpdate EXCEPT !.name = "Grade 1", !.section = "B", !.year = 2024]}

NextClass ==
  \/ \E m \in Members : CreateMember(m[1], m[2])
  \/ \E sec \in {"A"}, t \in KnownUserIds, cap \in {NoCapacity, 1, 2} : CreateClass(sec, t, cap)
  \/ \E id \in ClassIds, u \in ClassUpdates : UpdateClass(id, u)
  \/ \E id \in ClassIds : DeleteClass(id)
  \/ \E id \in ClassIds, st \in KnownUserIds : AddStudentToClass(id, st)
  \/ \E id \in ClassIds, st \in KnownUserIds : RemoveStudentFromClass(id, st)

SpecClass == Init /\ [][NextClass]_vars

----------------------------------------------------------------------------
(* The subject and enrollment services *)

Range(seq) == {seq[i] : i \in 1..Len(seq)}

(* subjectSchema.code: uppercase: true *)
Upper(code) == IF code = "sci" THEN "SCI" ELSE code

(* a response that echoes the request req *)
ReqResp(op, doc, uid, req, status, msg) ==
  [DocResp(op, doc, uid, status, msg) EXCEPT !.req = req]

(* SubjectService.createSubject *)
createSubject(code, classId, teacher) ==
  IF \E x \in DOMAIN subjects : subjects[x].code = Upper(code) /\ subjects[x].class = classId
  THEN [status |-> 400, msg |-> "Subject with this code already exists in this class",
        subjects |-> subjects]
  ELSE IF classId \notin DOMAIN classes
  THEN [status |-> 404, msg |-> "Class not found", subjects |-> subjects]
  ELSE IF teacher \notin DOMAIN users
  THEN [status |-> 404, msg |-> "Teacher not found", subjects |-> subjects]
  ELSE IF users[teacher].role # "TEACHER"
  THEN [status |-> 400, msg |-> "Teacher must have TEACHER role", subjects |-> subjects]
  ELSE [status |-> 201, msg |-> "Subject created successfully",
        subjects |-> (nextOid :> [code |-> Upper(code), class |-> classId,
                                  teacher |-> teacher, status |-> "ACTIVE"])
                     @@ subjects]

CreateSubject(code, classId, teacher) ==
  LET r == createSubject(code, classId, teacher) IN
  /\ r.status # 201 \/ nextOid <= MaxDocs
  /\ subjects' = r.subjects
  /\ nextOid' = IF r.status = 201 THEN nextOid + 1 ELSE nextOid
  /\ last' = DocResp("createSubject", IF r.status = 201 THEN nextOid ELSE NoId, NoId,
                     r.status, r.msg)
  /\ UNCHANGED <<authVars, users, classes, nextClassId, enrollments, exams, grades,
                 announcements, inflight>>

(* the fields of updateSubjectSchema.body that are absent from a request *)
NoSubjectUpdate == [code |-> Absent, class |-> NoId, teacher |-> NoId]

(* SubjectService.updateSubject: Object.assign(subject, updateData), then save *)
updateSubject(id, upd) ==
  IF id \notin DOMAIN subjects
  THEN [status |-> 404, msg |-> "Subject not found", subjects |-> subjects]
  ELSE IF /\ upd.code # Absent /\ upd.class # NoId
          /\ \E x \in DOMAIN subjects \ {id} :
                subjects[x].code = Upper(upd.code) /\ subjects[x].class = upd.class
  THEN [status |-> 400, msg |-> "Subject with this code already exists in this class",
        subjects |-> subjects]
  ELSE IF upd.class # NoId /\ upd.class \notin DOMAIN classes
  THEN [status |-> 404, msg |-> "Class not found", subjects |-> subjects]
  ELSE IF upd.teacher # NoId /\ upd.teacher \notin DOMAIN users
  THEN [status |-> 404, msg |-> "Teacher not found", subjects |-> subjects]
  ELSE IF upd.teacher # NoId /\ users[upd.teacher].role # "TEACHER"
  THEN [status |-> 400, msg |-> "Teacher must have TEACHER role", subjects |-> subjects]
  ELSE [status |-> 200, msg |-> "Subject updated successfully",
        subjects |-> [subjects EXCEPT
           ![id].code = IF upd.code = Absent THEN @ ELSE Upper(upd.code),
           ![id].class = IF upd.class = NoId THEN @ ELSE upd.class,
           ![id].teacher = IF upd.teacher = NoId THEN @ ELSE upd.teacher]]

UpdateSubject(id, upd) ==
  LET r == updateSubject(id, upd) IN
  /\ subjects' = r.subjects
  /\ last' = DocResp("updateSubject", id, NoId, r.status, r.msg)
  /\ UNCHANGED <<authVars, users, classes, nextClassId, enrollments, exams, grades,
                 announcements, nextOid, inflight>>

(* SubjectService.deleteSubject *)
deleteSubject(id) ==
  IF id \notin DOMAIN subjects
  THEN [status |-> 404, msg |-> "Subject not found", subjects |-> subjects]
  ELSE [status |-> 200, msg |-> "Subject deleted successfully",
        subjects |-> [x \in DOMAIN subjects \ {id} |-> subjects[x]]]

DeleteSubject(id) ==
  LET r == deleteSubject(id) IN
  /\ subjects' = r.subjects
  /\ last' = DocResp("deleteSubject", id, NoId, r.status, r.msg)
  /\ UNCHANGED <<authVars, users, classes, nextClassId, enrollments, exams, grades,
                 announcements, nextOid, inflight>>

(* Subject.find({ _id: { $in: list }, class: classId }) *)
SubjectsOfClassIn(list, classId) ==
  {x \in Range(list) : x \in DOMAIN subjects /\ subjects[x].class = classId}

(* Enrollment.findOne({ student, class, academicYear }) *)
FindEnrollment(student, classId, academicYear) ==
  {e \in DOMAIN enrollments : /\ enrollments[e].student = student
                              /\ enrollments[e].class = classId
                              /\ enrollments[e].academicYear = academicYear}

(* createEnrollment without the look-up of an existing enrollment *)
createEnrollmentNoCheck(studentId, classId, list, academicYear) ==
  IF studentId \notin DOMAIN users
  THEN [status |-> 404, msg |-> "Student not found", enrollments |-> enrollments]
  ELSE IF users[studentId].role # "STUDENT"
  THEN [status |-> 400, msg |-> "User must have STUDENT role", enrollments |-> enrollments]
  ELSE IF classId \notin DOMAIN classes
  THEN [status |-> 404, msg |-> "Class not found", enrollments |-> enrollments]
  ELSE IF Len(list) > 0 /\ Cardinality(SubjectsOfClassIn(list, classId)) # Len(list)
  THEN [status |-> 400, msg |-> "One or more subjects not found or not assigned to this class",
        enrollments |-> enrollments]
  ELSE [status |-> 201, msg |-> "Enrollment created successfully",
        enrollments |-> (nextOid :> [student |-> studentId, class |-> classId,
                                     subjects |-> list, academicYear |-> academicYear,
                                     status |-> "ACTIVE"])
                        @@ enrollments]

(* EnrollmentService.createEnrollment *)
createEnrollment(studentId, classId, list, academicYear) ==
  IF FindEnrollment(studentId, classId, academicYear) # {}
  THEN [status |-> 400,
        msg |-> "Student is already enrolled in this class for this academic year",
        enrollments |-> enrollments]
  ELSE
  IF studentId \notin DOMAIN users
  THEN [status |-> 404, msg |-> "Student not found", enrollments |-> enrollments]
  ELSE IF users[studentId].role # "STUDENT"
  THEN [status |-> 400, msg |-> "User must have STUDENT role", enrollments |-> enrollments]
  ELSE IF classId \notin DOMAIN classes
  THEN [status |-> 404, msg |-> "Class not found", enrollments |-> enrollments]
  ELSE IF Len(list) > 0 /\ Cardinality(SubjectsOfClassIn(list, classId)) # Len(list)
  THEN [status |-> 400, msg |-> "One or more subjects not found or not assigned to this class",
        enrollments |-> enrollments]
  ELSE [status |-> 201, msg |-> "Enrollment created successfully",
        enrollments |-> (nextOid :> [student |-> studentId, class |-> classId,
                                     subjects |-> list, academicYear |-> academicYear,
                                     status |-> "ACTIVE"])
                        @@ enrollments]

CreateEnrollment(studentId, classId, list, academicYear) ==
  LET r == createEnrollment(studentId, classId, list, academicYear) IN
  /\ r.status # 201 \/ nextOid <= MaxDocs
  /\ enrollments' = r.enrollments
  /\ nextOid' = IF r.status = 201 THEN nextOid + 1 ELSE nextOid
  /\ last' = ReqResp("createEnrollment", IF r.status = 201 THEN nextOid ELSE NoId, studentId,
                     [NoReq EXCEPT !.class = classId, !.year = academicYear],
                     r.status, r.msg)
  /\ UNCHANGED <<authVars, users, classes, nextClassId, subjects, exams, grades,
                 announcements, inflight>>

(* EnrollmentService.updateEnrollment; withSubjects says whether the body has *)
(* a subjects array (an empty array is a value too)                          *)
updateEnrollment(id, withSubjects, list, status) ==
  IF id \notin DOMAIN enrollments
  THEN [status |-> 404, msg |-> "Enrollment not found", enrollments |-> enrollments]
  ELSE IF /\ withSubjects
          /\ enrollments[id].class \in DOMAIN classes
          /\ Cardinality(SubjectsOfClassIn(list, enrollments[id].class)) # Len(list)
  THEN [status |-> 400, msg |-> "One or more subjects not found or not assigned to this class",
        enrollments |-> enrollments]
  ELSE [status |-> 200, msg |-> "Enrollment updated successfully",
        enrollments |-> [enrollments EXCEPT
           ![id].subjects = IF withSubjects THEN list ELSE @,
           ![id].status = IF status = Absent THEN @ ELSE status]]

UpdateEnrollment(id, withSubjects, list, status) ==
  LET r == updateEnrollment(id, withSubjects, list, status) IN
  /\ enrollments' = r.enrollments
  /\ last' = DocResp("updateEnrollment", id, NoId, r.status, r.msg)
  /\ UNCHANGED <<authVars, users, classes, nextClassId, subjects, exams, grades,
                 announcements, nextOid, inflight>>

(* EnrollmentService.deleteEnrollment *)
deleteEnrollment(id) ==
  IF id \notin DOMAIN enrollments
  THEN [status |-> 404, msg |-> "Enrollment not found", enrollments |-> enrollments]
  ELSE [status |-> 200, msg |-> "Enrollment deleted successfully",
        enrollments |-> [e \in DOMAIN enrollments \ {id} |-> enrollments[e]]]

DeleteEnrollment(id) ==
  LET r == deleteEnrollment(id) IN
  /\ enrollments' = r.enrollments
  /\ last' = DocResp("deleteEnrollment", id, NoId, r.status, r.msg)
  /\ UNCHANGED <<authVars, users, classes, nextClassId, subjects, exams, grades,
                 announcements, nextOid, inflight>>

(* EnrollmentService.addSubjectToEnrollment *)
addSubjectToEnrollment(id, subjectId) ==
  IF id \notin DOMAIN enrollments
  THEN [status |-> 404, msg |-> "Enrollment not found", enrollments |-> enrollments]
  ELSE IF subjectId \notin DOMAIN subjects
          \/ subjects[subjectId].class # enrollments[id].class
  THEN [status |-> 404, msg |-> "Subject not found or not assigned to this class",
        enrollments |-> enrollments]
  ELSE IF Includes(enrollments[id].subjects, subjectId)
  THEN [status |-> 400, msg |-> "Student is already enrolled in this subject",
        enrollments |-> enrollments]
  ELSE [status |-> 200, msg |-> "Subject added to enrollment successfully",
        enrollments |-> [enrollments EXCEPT ![id].subjects = Append(@, subjectId)]]

AddSubjectToEnrollment(id, subjectId) ==
  LET r == addSubjectToEnrollment(id, subjectId) IN
  /\ enrollments' = r.enrollments
  /\ last' = DocResp("addSubjectToEnrollment", id, NoId, r.status, r.msg)
  /\ UNCHANGED <<authVars, users, classes, nextClassId, subjects, exams, grades,
                 announcements, nextOid, inflight>>

(* EnrollmentService.removeSubjectFromEnrollment *)
removeSubjectFromEnrollment(id, subjectId) ==
  IF id \notin DOMAIN enrollments
  THEN [status |-> 404, msg |-> "Enrollment not found", enrollments |-> enrollments]
  ELSE [status |-> 200, msg |-> "Subject removed from enrollment successfully",
        enrollments |-> [enrollments EXCEPT ![id].subjects = Without(@, subjectId)]]

RemoveSubjectFromEnrollment(id, subjectId) ==
  LET r == removeSubjectFromEnrollment(id, subjectId) IN
  /\ enrollments' = r.enrollments
  /\ last' = DocResp("removeSubjectFromEnrollment", id, NoId, r.status, r.msg)
  /\ UNCHANGED <<authVars, users, classes, nextClassId, subjects, exams, grades,
                 announcements, nextOid, inflight>>

(* the members the enrollment requests name: one teacher and one student *)
EnrollMembers == {<<"a@x.io", "TEACHER">>, <<"b@x.io", "STUDENT">>}

(* ids of subjects and of enrollments a request can name *)
SubjectIds == DOMAIN subjects \cup {nextOid}

EnrollmentIds == DOMAIN enrollments \cup {nextOid}

(* the subjects arrays of the request bodies *)
SubjectLists == {<<>>} \cup {<<x>> : x \in SubjectIds}

(* request bodies of PATCH /subjects/:id *)
SubjectUpdates ==
  {[NoSubjectUpdate EXCEPT !.code = "SCI"]}
  \cup {[NoSubjectUpdate EXCEPT !.class = c] : c \in ClassIds}

NextEnroll ==
  \/ \E m \in EnrollMembers : CreateMember(m[1], m[2])
  \/ \E t \in DOMAIN users : CreateClass("A", t, NoCapacity)
  \/ \E id \in ClassIds : DeleteClass(id)
  \/ \E code \in {"MATH", "sci"}, c \in ClassIds, t \in DOMAIN users : CreateSubject(code, c, t)
  \/ \E id \in SubjectIds, u \in SubjectUpdates : UpdateSubject(id, u)
  \/ \E id \in SubjectIds : DeleteSubject(id)
  \/ \E st \in KnownUserIds, c \in ClassIds, l \in SubjectLists :
        CreateEnrollment(st, c, l, 2024)
  \/ \E id \in EnrollmentIds, l \in SubjectLists, w \in BOOLEAN :
        (w \/ l = <<>>) /\ UpdateEnrollment(id, w, l, Absent)
  \/ \E id \in EnrollmentIds : DeleteEnrollment(id)
  \/ \E id \in EnrollmentIds, x \in SubjectIds : AddSubjectToEnrollment(id, x)
  \/ \E id \in EnrollmentIds, x \in SubjectIds : RemoveSubjectFromEnrollment(id, x)

SpecEnroll == Init /\ [][NextEnroll]_vars

----------------------------------------------------------------------------
(* The exam and grade services *)

(* the status the error handler gives a document that fails schema validation *)
ValidationErrorStatus == 400

(* ExamsService.createExam *)
createExam(classId, subjectId, maxMarks, createdBy) ==
  IF classId \notin DOMAIN classes
  THEN [status |-> 404, msg |-> "Class not found", exams |-> exams]
  ELSE IF subjectId \notin DOMAIN subjects \/ subjects[subjectId].class # classId
  THEN [status |-> 404, msg |-> "Subject not found or not assigned to this class",
        exams |-> exams]
  ELSE IF createdBy \notin DOMAIN users
  THEN [status |-> 404, msg |-> "User not found", exams |-> exams]
  ELSE [status |-> 201, msg |-> "Exam created successfully",
        exams |-> (nextOid :> [class |-> classId, subject |-> subjectId,
                               maxMarks |-> maxMarks, createdBy |-> createdBy,
                               status |-> "SCHEDULED"])
                  @@ exams]

CreateExam(classId, subjectId, maxMarks, createdBy) ==
  LET r == createExam(classId, subjectId, maxMarks, createdBy) IN
  /\ r.status # 201 \/ nextOid <= MaxDocs
  /\ exams' = r.exams
  /\ nextOid' = IF r.status = 201 THEN nextOid + 1 ELSE nextOid
  /\ last' = DocResp("createExam", IF r.status = 201 THEN nextOid ELSE NoId, createdBy,
                     r.status, r.msg)
  /\ UNCHANGED <<authVars, users, classes, nextClassId, subjects, enrollments, grades,
                 announcements, inflight>>

(* ExamsService.updateExam with a new maxMarks *)
updateExam(id, maxMarks) ==
  IF id \notin DOMAIN exams
  THEN [status |-> 404, msg |-> "Exam not found", exams |-> exams]
  ELSE [status |-> 200, msg |-> "Exam updated successfully",
        exams |-> [exams EXCEPT ![id].maxMarks = maxMarks]]

UpdateExam(id, maxMarks) ==
  LET r == updateExam(id, maxMarks) IN
  /\ exams' = r.exams
  /\ last' = DocResp("updateExam", id, NoId, r.status, r.msg)
  /\ UNCHANGED <<authVars, users, classes, nextClassId, subjects, enrollments, grades,
                 announcements, nextOid, inflight>>

(* ExamsService.deleteExam: Grade.deleteMany({ exam: id }), then the exam *)
deleteExam(id) ==
  IF id \notin DOMAIN exams
  THEN [status |-> 404, msg |-> "Exam not found", exams |-> exams, grades |-> grades]
  ELSE [status |-> 200, msg |-> "Exam deleted successfully",
        exams |-> [x \in DOMAIN exams \ {id} |-> exams[x]],
        grades |-> [g \in {h \in DOMAIN grades : grades[h].exam # id} |-> grades[g]]]

DeleteExam(id) ==
  LET r == deleteExam(id) IN
  /\ exams' = r.exams
  /\ grades' = r.grades
  /\ last' = DocResp("deleteExam", id, NoId, r.status, r.msg)
  /\ UNCHANGED <<authVars, users, classes, nextClassId, subjects, enrollments,
                 announcements, nextOid, inflight>>

(* the breakpoints of gradeSchema.pre('save'): percentage = marks / maxMarks * 100 *)
letterGrade(marks, maxMarks) ==
  IF marks * 100 >= 90 * maxMarks THEN "A+"
  ELSE IF marks * 100 >= 85 * maxMarks THEN "A"
  ELSE IF marks * 100 >= 80 * maxMarks THEN "A-"
  ELSE IF marks * 100 >= 75 * maxMarks THEN "B+"
  ELSE IF marks * 100 >= 70 * maxMarks THEN "B"
  ELSE IF marks * 100 >= 65 * maxMarks THEN "B-"
  ELSE IF marks * 100 >= 60 * maxMarks THEN "C+"
  ELSE IF marks * 100 >= 55 * maxMarks THEN "C"
  ELSE IF marks * 100 >= 50 * maxMarks THEN "C-"
  ELSE IF marks * 100 >= 45 * maxMarks THEN "D"
  ELSE "F"

(* gradeSchema.pre('save'): this.constructor is the Grade model, so the hook     *)
(* looks the exam's id up among the grades; a grade found there has no maxMarks, *)
(* the percentage is NaN and every comparison fails.                            *)
gradePreSave(doc, marksModified) ==
  IF marksModified /\ doc.exam \in DOMAIN grades
  THEN [doc EXCEPT !.grade = "F"]
  ELSE doc

(* a save that would run the pre('save') hook without validating first *)
saveGradeUnvalidated(id, doc, marksModified) ==
  [ok |-> TRUE, msg |-> "",
   grades |-> (id :> gradePreSave(doc, marksModified))
              @@ [g \in DOMAIN grades \ {id} |-> grades[g]]]

(* a save of a schema whose grade letter would default to F *)
saveGradeDefaultLetter(id, doc, marksModified) ==
  [ok |-> TRUE, msg |-> "",
   grades |-> (id :> gradePreSave([doc EXCEPT !.grade = "F"], marksModified))
              @@ [g \in DOMAIN grades \ {id} |-> grades[g]]]

(* document.save(): the schema's validators run before the pre('save') hooks; *)
(* gradeSchema.grade is required                                             *)
saveGrade(id, doc, marksModified) ==
  IF doc.grade = Absent
  THEN [ok |-> FALSE, msg |-> "Grade is required", grades |-> grades]
  ELSE [ok |-> TRUE, msg |-> "",
        grades |-> (id :> gradePreSave(doc, marksModified))
                   @@ [g \in DOMAIN grades \ {id} |-> grades[g]]]

(* Grade.findOne({ exam, student }) *)
FindGrade(examId, studentId) ==
  {g \in DOMAIN grades : grades[g].exam = examId /\ grades[g].student = studentId}

(* createGrade without the comparison of the marks with exam.maxMarks *)
createGradeNoMarksCheck(examId, studentId, marks, gradedBy) ==
  IF FindGrade(examId, studentId) # {}
  THEN [status |-> 400, msg |-> "Grade already exists for this student in this exam",
        grades |-> grades]
  ELSE
  IF examId \notin DOMAIN exams
  THEN [status |-> 404, msg |-> "Exam not found", grades |-> grades]
  ELSE IF studentId \notin DOMAIN users
  THEN [status |-> 404, msg |-> "Student not found", grades |-> grades]
  ELSE IF users[studentId].role # "STUDENT"
  THEN [status |-> 400, msg |-> "User must have STUDENT role", grades |-> grades]
  ELSE IF gradedBy \notin DOMAIN users
  THEN [status |-> 404, msg |-> "User not found", grades |-> grades]
  ELSE LET newGrade == [exam |-> examId, student |-> studentId, marks |-> marks,
                        grade |-> Absent, gradedBy |-> gradedBy]
           saved == saveGrade(nextOid, newGrade, TRUE)
       IN IF saved.ok
          THEN [status |-> 201, msg |-> "Grade created successfully", grades |-> saved.grades]
          ELSE [status |-> ValidationErrorStatus, msg |-> saved.msg, grades |-> grades]

(* ExamsService.createGrade *)
createGrade(examId, studentId, marks, gradedBy) ==
  IF FindGrade(examId, studentId) # {}
  THEN [status |-> 400, msg |-> "Grade already exists for this student in this exam",
        grades |-> grades]
  ELSE
  IF examId \notin DOMAIN exams
  THEN [status |-> 404, msg |-> "Exam not found", grades |-> grades]
  ELSE IF studentId \notin DOMAIN users
  THEN [status |-> 404, msg |-> "Student not found", grades |-> grades]
  ELSE IF users[studentId].role # "STUDENT"
  THEN [status |-> 400, msg |-> "User must have STUDENT role", grades |-> grades]
  ELSE IF marks > exams[examId].maxMarks
  THEN [status |-> 400, msg |-> "Marks cannot exceed maximum marks for this exam",
        grades |-> grades]
  ELSE IF gradedBy \notin DOMAIN users
  THEN [status |-> 404, msg |-> "User not found", grades |-> grades]
  ELSE LET newGrade == [exam |-> examId, student |-> studentId, marks |-> marks,
                        grade |-> Absent, gradedBy |-> gradedBy]
           saved == saveGrade(nextOid, newGrade, TRUE)
       IN IF saved.ok
          THEN [status |-> 201, msg |-> "Grade created successfully", grades |-> saved.grades]
          ELSE [status |-> ValidationErrorStatus, msg |-> saved.msg, grades |-> grades]

CreateGrade(examId, studentId, marks, gradedBy) ==
  LET r == createGrade(examId, studentId, marks, gradedBy) IN
  /\ r.status # 201 \/ nextOid <= MaxDocs + 1
  /\ grades' = r.grades
  /\ nextOid' = IF r.status = 201 THEN nextOid + 1 ELSE nextOid
  /\ last' = ReqResp("createGrade", examId, studentId, [NoReq EXCEPT !.marks = marks],
                     r.status, r.msg)
  /\ UNCHANGED <<authVars, users, classes, nextClassId, subjects, enrollments, exams,
                 announcements, inflight>>

(* ExamsService.updateGrade with new marks *)
updateGrade(id, marks) ==
  IF id \notin DOMAIN grades
  THEN [status |-> 404, msg |-> "Grade not found", grades |-> grades]
  ELSE IF grades[id].exam \in DOMAIN exams /\ marks > exams[grades[id].exam].maxMarks
  THEN [status |-> 400, msg |-> "Marks cannot exceed maximum marks for this exam",
        grades |-> grades]
  ELSE LET saved == saveGrade(id, [grades[id] EXCEPT !.marks = marks],
                              marks # grades[id].marks)
       IN IF saved.ok
          THEN [status |-> 200, msg |-> "Grade updated successfully", grades |-> saved.grades]
          ELSE [status |-> ValidationErrorStatus, msg |-> saved.msg, grades |-> grades]

UpdateGrade(id, marks) ==
  LET r == updateGrade(id, marks) IN
  /\ grades' = r.grades
  /\ last' = ReqResp("updateGrade", id, NoId, [NoReq EXCEPT !.marks = marks],
                     r.status, r.msg)
  /\ UNCHANGED <<authVars, users, classes, nextClassId, subjects, enrollments, exams,
                 announcements, nextOid, inflight>>

(* ids of exams and of grades a request can name *)
ExamIds == DOMAIN exams \cup {nextOid}

GradeIds == DOMAIN grades \cup {nextOid}

(* marks and maxMarks of the request bodies *)
MarksInputs == {40, 52, 95, 101}

MaxMarksInputs == {100, 50}

NextGrade ==
  \/ \E m \in EnrollMembers : CreateMember(m[1], m[2])
  \/ \E t \in DOMAIN users : CreateClass("A", t, NoCapacity)
  \/ \E c \in ClassIds, t \in DOMAIN users : CreateSubject("MATH", c, t)
  \/ \E c \in ClassIds, x \in SubjectIds, u \in DOMAIN users : CreateExam(c, x, 100, u)
  \/ \E id \in ExamIds, mm \in MaxMarksInputs : UpdateExam(id, mm)
  \/ \E id \in ExamIds : DeleteExam(id)
  \/ \E e \in ExamIds, st \in KnownUserIds, mk \in MarksInputs, by \in DOMAIN users :
        CreateGrade(e, st, mk, by)
  \/ \E id \in GradeIds, mk \in MarksInputs : UpdateGrade(id, mk)

SpecGrade == Init /\ [][NextGrade]_vars

----------------------------------------------------------------------------
(* The announcement service *)

(* Class.find / User.find({ _id: { $in: targets } }): do as many documents come *)
(* back as the list has entries                                                *)
TargetsResolve(audience, targets) ==
  IF audience = "CLASS"
  THEN Cardinality(Range(targets) \cap DOMAIN classes) = Len(targets)
  ELSE IF audience \in {"USER", "ROLE"}
  THEN Cardinality(Range(targets) \cap DOMAIN users) = Len(targets)
  ELSE TRUE

TargetsError(audience) ==
  IF audience = "CLASS" THEN "One or more classes not found"
  ELSE "One or more users not found"

(* announcementSchema.pre('save') *)
announcementPreSave(doc, statusModified) ==
  IF statusModified /\ doc.status = "PUBLISHED" /\ doc.publishedAt = NoTime
  THEN [doc EXCEPT !.publishedAt = now]
  ELSE doc

(* a save that would skip the validation of the document *)
saveAnnouncementUnvalidated(id, doc, statusModified) ==
  [ok |-> TRUE, msg |-> "",
   announcements |-> (id :> announcementPreSave(doc, statusModified))
                     @@ [a \in DOMAIN announcements \ {id} |-> announcements[a]]]

(* document.save(): announcementSchema.targetModel is required when the audience *)
(* is not ALL, and no service sets it                                           *)
saveAnnouncement(id, doc, statusModified) ==
  IF doc.audience # "ALL"
  THEN [ok |-> FALSE, msg |-> "Path targetModel is required.",
        announcements |-> announcements]
  ELSE [ok |-> TRUE, msg |-> "",
        announcements |-> (id :> announcementPreSave(doc, statusModified))
                          @@ [a \in DOMAIN announcements \ {id} |-> announcements[a]]]

(* createAnnouncement without the look-up of the targets *)
createAnnouncementNoLookup(createdBy, audience, targets, status) ==
  IF createdBy \notin DOMAIN users
  THEN [status |-> 404, msg |-> "User not found", announcements |-> announcements]
  ELSE IF audience # "ALL" /\ Len(targets) = 0
  THEN [status |-> 400, msg |-> "Targets are required when audience is not ALL",
        announcements |-> announcements]
  ELSE LET saved == saveAnnouncement(nextOid,
                        [audience |-> audience, targets |-> targets, createdBy |-> createdBy,
                         status |-> IF status = Absent THEN "DRAFT" ELSE status,
                         publishedAt |-> NoTime, expiresAt |-> NoTime],
                        TRUE)
       IN IF saved.ok
          THEN [status |-> 201, msg |-> "Announcement created successfully",
                announcements |-> saved.announcements]
          ELSE [status |-> ValidationErrorStatus, msg |-> saved.msg,
                announcements |-> announcements]

(* AnnouncementService.createAnnouncement *)
createAnnouncement(createdBy, audience, targets, status) ==
  IF createdBy \notin DOMAIN users
  THEN [status |-> 404, msg |-> "User not found", announcements |-> announcements]
  ELSE IF audience # "ALL" /\ Len(targets) = 0
  THEN [status |-> 400, msg |-> "Targets are required when audience is not ALL",
        announcements |-> announcements]
  ELSE IF Len(targets) > 0 /\ ~TargetsResolve(audience, targets)
  THEN [status |-> 400, msg |-> TargetsError(audience), announcements |-> announcements]
  ELSE LET saved == saveAnnouncement(nextOid,
                        [audience |-> audience, targets |-> targets, createdBy |-> createdBy,
                         status |-> IF status = Absent THEN "DRAFT" ELSE status,
                         publishedAt |-> NoTime, expiresAt |-> NoTime],
                        TRUE)
       IN IF saved.ok
          THEN [status |-> 201, msg |-> "Announcement created successfully",
                announcements |-> saved.announcements]
          ELSE [status |-> ValidationErrorStatus, msg |-> saved.msg,
                announcements |-> announcements]

CreateAnnouncement(createdBy, audience, targets, status) ==
  LET r == createAnnouncement(createdBy, audience, targets, status) IN
  /\ r.status # 201 \/ nextOid <= MaxAnnouncements
  /\ announcements' = r.announcements
  /\ nextOid' = IF r.status = 201 THEN nextOid + 1 ELSE nextOid
  /\ last' = ReqResp("createAnnouncement", IF r.status = 201 THEN nextOid ELSE NoId, createdBy,
                     [NoReq EXCEPT !.audience = audience, !.list = targets], r.status, r.msg)
  /\ UNCHANGED <<authVars, users, classes, nextClassId, subjects, enrollments, exams,
                 grades, inflight>>

(* the fields of updateAnnouncementSchema.body that are absent from a request *)
NoAnnouncementUpdate == [audience |-> Absent, targets |-> <<>>, status |-> Absent]

(* AnnouncementService.updateAnnouncement *)
updateAnnouncement(id, upd, userRole, userId) ==
  IF id \notin DOMAIN announcements
  THEN [status |-> 404, msg |-> "Announcement not found", announcements |-> announcements]
  ELSE IF userRole # "ADMIN" /\ announcements[id].createdBy # userId
  THEN [status |-> 403, msg |-> "You can only update your own announcements",
        announcements |-> announcements]
  ELSE IF /\ Len(upd.targets) > 0
          /\ ~TargetsResolve(IF upd.audience = Absent THEN announcements[id].audience
                              ELSE upd.audience, upd.targets)
  THEN [status |-> 400,
        msg |-> TargetsError(IF upd.audience = Absent THEN announcements[id].audience
                             ELSE upd.audience),
        announcements |-> announcements]
  ELSE LET old == announcements[id]
           doc == [old EXCEPT
                     !.audience = IF upd.audience = Absent THEN @ ELSE upd.audience,
                     !.targets = IF Len(upd.targets) = 0 THEN @ ELSE upd.targets,
                     !.status = IF upd.status = Absent THEN @ ELSE upd.status]
           saved == saveAnnouncement(id, doc, doc.status # old.status)
       IN IF saved.ok
          THEN [status |-> 200, msg |-> "Announcement updated successfully",
                announcements |-> saved.announcements]
          ELSE [status |-> ValidationErrorStatus, msg |-> saved.msg,
                announcements |-> announcements]

(* AnnouncementService.deleteAnnouncement *)
deleteAnnouncement(id, userRole, userId) ==
  IF id \notin DOMAIN announcements
  THEN [status |-> 404, msg |-> "Announcement not found", announcements |-> announcements]
  ELSE IF userRole # "ADMIN" /\ announcements[id].createdBy # userId
  THEN [status |-> 403, msg |-> "You can only delete your own announcements",
        announcements |-> announcements]
  ELSE [status |-> 200, msg |-> "Announcement deleted successfully",
        announcements |-> [a \in DOMAIN announcements \ {id} |-> announcements[a]]]

(* AnnouncementService.publishAnnouncement *)
publishAnnouncement(id, userRole, userId) ==
  IF id \notin DOMAIN announcements
  THEN [status |-> 404, msg |-> "Announcement not found", announcements |-> announcements]
  ELSE IF userRole # "ADMIN" /\ announcements[id].createdBy # userId
  THEN [status |-> 403, msg |-> "You can only publish your own announcements",
        announcements |-> announcements]
  ELSE LET old == announcements[id]
           saved == saveAnnouncement(id, [old EXCEPT !.status = "PUBLISHED",
                                                     !.publishedAt = now],
                                     old.status # "PUBLISHED")
       IN IF saved.ok
          THEN [status |-> 200, msg |-> "Announcement published successfully",
                announcements |-> saved.announcements]
          ELSE [status |-> ValidationErrorStatus, msg |-> saved.msg,
                announcements |-> announcements]

(* archiveAnnouncement without the check of the caller *)
archiveAnnouncementNoCheck(id, userRole, userId) ==
  IF id \notin DOMAIN announcements
  THEN [status |-> 404, msg |-> "Announcement not found", announcements |-> announcements]
  ELSE [status |-> 200, msg |-> "Announcement archived successfully",
        announcements |-> [announcements EXCEPT ![id].status = "ARCHIVED"]]

(* AnnouncementService.archiveAnnouncement *)
archiveAnnouncement(id, userRole, userId) ==
  IF id \notin DOMAIN announcements
  THEN [status |-> 404, msg |-> "Announcement not found", announcements |-> announcements]
  ELSE IF userRole # "ADMIN" /\ announcements[id].createdBy # userId
  THEN [status |-> 403, msg |-> "You can only archive your own announcements",
        announcements |-> announcements]
  ELSE LET old == announcements[id]
           saved == saveAnnouncement(id, [old EXCEPT !.status = "ARCHIVED"],
                                     old.status # "ARCHIVED")
       IN IF saved.ok
          THEN [status |-> 200, msg |-> "Announcement archived successfully",
                announcements |-> saved.announcements]
          ELSE [status |-> ValidationErrorStatus, msg |-> saved.msg,
                announcements |-> announcements]

(* the controller's answer to a request of caller (req.user) on announcement id *)
AnnouncementChange(op, id, caller, r) ==
  /\ announcements' = r.announcements
  /\ last' = [DocResp(op, id, caller.userId, r.status, r.msg) EXCEPT !.caller = caller]
  /\ UNCHANGED <<authVars, users, classes, nextClassId, subjects, enrollments, exams,
                 grades, nextOid, inflight>>

UpdateAnnouncement(id, upd, caller) ==
  AnnouncementChange("updateAnnouncement", id, caller,
                     updateAnnouncement(id, upd, caller.role, caller.userId))

DeleteAnnouncement(id, caller) ==
  AnnouncementChange("deleteAnnouncement", id, caller,
                     deleteAnnouncement(id, caller.role, caller.userId))

PublishAnnouncement(id, caller) ==
  AnnouncementChange("publishAnnouncement", id, caller,
                     publishAnnouncement(id, caller.role, caller.userId))

ArchiveAnnouncement(id, caller) ==
  AnnouncementChange("archiveAnnouncement", id, caller,
                     archiveAnnouncement(id, caller.role, caller.userId))

(* the members the announcement requests come from: a teacher and an admin *)
AnnounceMembers == {<<"a@x.io", "TEACHER">>, <<"b@x.io", "ADMIN">>}

(* req.user of an authenticated request *)
Callers == {TokenPayload(u, users[u].email, users[u].role) : u \in DOMAIN users}

Audiences == {"ALL", "CLASS", "ROLE", "USER"}

(* the targets arrays of the request bodies *)
TargetLists == {<<>>} \cup {<<x>> : x \in ClassIds}

AnnouncementIds == DOMAIN announcements \cup {nextOid}

(* request bodies of PATCH /announcements/:id *)
AnnouncementUpdates ==
  {[NoAnnouncementUpdate EXCEPT !.status = st] : st \in {"PUBLISHED", "DRAFT"}}
  \cup {[NoAnnouncementUpdate EXCEPT !.audience = "CLASS", !.targets = l] :
          l \in TargetLists}

NextAnnounce ==
  \/ \E m \in AnnounceMembers : CreateMember(m[1], m[2])
  \/ \E t \in DOMAIN users : CreateClass("A", t, NoCapacity)
  \/ \E by \in KnownUserIds, aud \in Audiences, l \in TargetLists, st \in {Absent, "PUBLISHED"} :
        (aud # "ALL" \/ l = <<>>) /\ CreateAnnouncement(by, aud, l, st)
  \/ \E id \in AnnouncementIds, u \in AnnouncementUpdates, c \in Callers :
        UpdateAnnouncement(id, u, c)
  \/ \E id \in AnnouncementIds, c \in Callers : DeleteAnnouncement(id, c)
  \/ \E id \in AnnouncementIds, c \in Callers : PublishAnnouncement(id, c)
  \/ \E id \in AnnouncementIds, c \in Callers : ArchiveAnnouncement(id, c)

SpecAnnounce == Init /\ [][NextAnnounce]_vars

----------------------------------------------------------------------------
(* The life of an announcement while the clock advances *)

(* request bodies of PATCH /announcements/:id that set the status *)
StatusUpdates ==
  {[NoAnnouncementUpdate EXCEPT !.status = st] : st \in {"PUBLISHED", "DRAFT"}}

NextPublish ==
  \/ \E m \in AnnounceMembers : CreateMember(m[1], m[2])
  \/ \E by \in DOMAIN users, st \in {Absent, "PUBLISHED"} :
        CreateAnnouncement(by, "ALL", <<>>, st)
  \/ \E id \in DOMAIN announcements, u \in StatusUpdates, c \in Callers :
        UpdateAnnouncement(id, u, c)
  \/ \E id \in DOMAIN announcements, c \in Callers : PublishAnnouncement(id, c)
  \/ \E id \in DOMAIN announcements, c \in Callers : ArchiveAnnouncement(id, c)
  \/ \E d \in {AccessTtl} : Tick(d)

SpecPublish == Init /\ [][NextPublish]_vars

----------------------------------------------------------------------------
(* Overlapping requests on the User collection: each service call is split *)
(* at its awaits, between the pre-check query and the write                *)

(* the status the error handler gives a duplicate-key error of the storage *)
StorageErrorStatus == 500

DuplicateKey == "E11000 duplicate key error"

(* an insert into the User collection without its unique index *)
insertUserNoIndex(doc) ==
  [ok |-> TRUE, users |-> (nextId :> doc) @@ users]

(* user.save() of a new document: userSchema.email is unique and lowercase *)
insertUser(doc) ==
  IF \E i \in DOMAIN users : users[i].email = doc.email
  THEN [ok |-> FALSE, users |-> users]
  ELSE [ok |-> TRUE, users |-> (nextId :> doc) @@ users]

(* user.save() of a loaded document whose email was assigned *)
saveUserEmail(id, email) ==
  IF id \notin DOMAIN users
  THEN [ok |-> FALSE, msg |-> "No document found for query", users |-> users]
  ELSE IF \E i \in DOMAIN users \ {id} : users[i].email = Lower(email)
  THEN [ok |-> FALSE, msg |-> DuplicateKey, users |-> users]
  ELSE [ok |-> TRUE, msg |-> "", users |-> [users EXCEPT ![id].email = Lower(email)]]

(* createUser up to its pre-check: User.findOne({ email }) *)
BeginCreateUser(c, op, email) ==
  /\ inflight[c].pc = "idle"
  /\ IF FindByEmail(email) # {}
     THEN /\ last' = Resp(op, email, Absent, NoTok, 400, "User with this email already exists",
                          NoId, NoPair)
          /\ UNCHANGED inflight
     ELSE /\ inflight' = [inflight EXCEPT ![c] = [Quiet EXCEPT !.pc = "checked", !.op = op,
                                                               !.email = email]]
          /\ UNCHANGED last
  /\ UNCHANGED <<users, nextId, now, ticks, held, nextToken, rp, classes, nextClassId, docVars>>

(* createUser from hashPassword to user.save(); register then signs the tokens *)
FinishCreateUser(c) ==
  LET f == inflight[c]
      r == insertUser(NewUser(f.email, hashPassword("pw1"), "STUDENT", "ACTIVE"))
  IN /\ f.pc = "checked"
     /\ f.op \in {"register", "createUser"}
     /\ ~r.ok \/ nextId <= MaxUsers
     /\ inflight' = [inflight EXCEPT ![c] = Quiet]
     /\ IF ~r.ok
        THEN /\ last' = Resp(f.op, f.email, Absent, NoTok, StorageErrorStatus, DuplicateKey,
                             NoId, NoPair)
             /\ UNCHANGED <<users, nextId>>
        ELSE /\ nextId' = nextId + 1
             /\ IF f.op = "register"
                THEN LET user == r.users[nextId]
                         tokens == generateTokenPair(TokenPayload(nextId, user.email, user.role))
                     IN /\ users' = updateLastLogin(r.users, nextId)
                        /\ last' = Resp(f.op, f.email, Absent, NoTok, 201,
                                        "User registered successfully", nextId, tokens)
                ELSE /\ users' = r.users
                     /\ last' = Resp(f.op, f.email, Absent, NoTok, 201,
                                     "User created successfully", nextId, NoPair)
     /\ UNCHANGED <<now, ticks, held, nextToken, rp, classes, nextClassId, docVars>>

(* updateUser up to its pre-check; the body carries an email *)
BeginUpdateUser(c, id, email) ==
  /\ inflight[c].pc = "idle"
  /\ IF id \notin DOMAIN users
     THEN /\ last' = Resp("updateUser", email, Absent, NoTok, 404, "User not found", id, NoPair)
          /\ UNCHANGED inflight
     ELSE IF email # users[id].email /\ FindByEmail(email) # {}
     THEN /\ last' = Resp("updateUser", email, Absent, NoTok, 400,
                          "User with this email already exists", id, NoPair)
          /\ UNCHANGED inflight
     ELSE /\ inflight' = [inflight EXCEPT ![c] = [Quiet EXCEPT !.pc = "checked",
                                                   !.op = "updateUser", !.id = id,
                                                   !.email = email]]
          /\ UNCHANGED last
  /\ UNCHANGED <<users, nextId, now, ticks, held, nextToken, rp, classes, nextClassId, docVars>>

(* updateUser from Object.assign to user.save() *)
FinishUpdateUser(c) ==
  LET f == inflight[c]
      r == saveUserEmail(f.id, f.email)
  IN /\ f.pc = "checked"
     /\ f.op = "updateUser"
     /\ inflight' = [inflight EXCEPT ![c] = Quiet]
     /\ users' = r.users
     /\ last' = IF r.ok
                THEN Resp("updateUser", f.email, Absent, NoTok, 200, "User updated successfully",
                          f.id, NoPair)
                ELSE Resp("updateUser", f.email, Absent, NoTok, StorageErrorStatus, r.msg,
                          f.id, NoPair)
     /\ UNCHANGED <<nextId, now, ticks, held, nextToken, rp, classes, nextClassId, docVars>>

NextUserRace ==
  \/ \E c \in Calls, op \in {"register", "createUser"}, e \in Emails : BeginCreateUser(c, op, e)
  \/ \E c \in Calls : FinishCreateUser(c)
  \/ \E c \in Calls, id \in KnownUserIds, e \in Emails : BeginUpdateUser(c, id, e)
  \/ \E c \in Calls : FinishUpdateUser(c)

SpecUserRace == Init /\ [][NextUserRace]_vars

----------------------------------------------------------------------------
(* Overlapping addStudentToClass calls: split between the checks on the  *)
(* loaded class and classData.save()                                     *)

(* a save that would look at the stored list again and refuse a full class *)
pushStudentSerialized(classId, studentId) ==
  IF classId \notin DOMAIN classes
  THEN [ok |-> FALSE, classes |-> classes]
  ELSE IF Len(classes[classId].students) >= classes[classId].capacity
  THEN [ok |-> FALSE, classes |-> classes]
  ELSE [ok |-> TRUE,
        classes |-> [classes EXCEPT ![classId].students = Append(@, studentId)]]

(* classData.students.push(studentId); classData.save(): the update sent is a *)
(* $push on the stored array, whatever was loaded                            *)
pushStudent(classId, studentId) ==
  IF classId \notin DOMAIN classes
  THEN [ok |-> FALSE, classes |-> classes]
  ELSE [ok |-> TRUE,
        classes |-> [classes EXCEPT ![classId].students = Append(@, studentId)]]

(* addStudentToClass up to the capacity check, on the class and user it loads *)
BeginAddStudent(c, classId, studentId) ==
  LET r == addStudentToClass(classId, studentId) IN
  /\ inflight[c].pc = "idle"
  /\ IF r.status # 200
     THEN /\ last' = DocResp("addStudentToClass", classId, studentId, r.status, r.msg)
          /\ UNCHANGED inflight
     ELSE /\ inflight' = [inflight EXCEPT ![c] = [Quiet EXCEPT !.pc = "checked",
                                                   !.op = "addStudentToClass",
                                                   !.id = classId, !.arg = studentId]]
          /\ UNCHANGED last
  /\ UNCHANGED <<users, nextId, now, ticks, held, nextToken, rp, classes, nextClassId, docVars>>

(* addStudentToClass from the push to the answer *)
FinishAddStudent(c) ==
  LET f == inflight[c]
      r == pushStudent(f.id, f.arg)
  IN /\ f.pc = "checked"
     /\ f.op = "addStudentToClass"
     /\ inflight' = [inflight EXCEPT ![c] = Quiet]
     /\ classes' = r.classes
     /\ users' = IF r.ok THEN setMetaClass(f.arg, f.id) ELSE users
     /\ last' = IF r.ok
                THEN DocResp("addStudentToClass", f.id, f.arg, 200,
                             "Student added to class successfully")
                ELSE DocResp("addStudentToClass", f.id, f.arg, StorageErrorStatus,
                             "No document found for query")
     /\ UNCHANGED <<nextId, now, ticks, held, nextToken, rp, nextClassId, docVars>>

(* the capacity of the class the overlapping calls compete for *)
OneSlot == 1

NextClassRace ==
  \/ \E m \in Members : CreateMember(m[1], m[2])
  \/ \E t \in DOMAIN users : CreateClass("A", t, OneSlot)
  \/ \E c \in Calls, id \in ClassIds, st \in KnownUserIds : BeginAddStudent(c, id, st)
  \/ \E c \in Calls : FinishAddStudent(c)

SpecClassRace == Init /\ [][NextClassRace]_vars

----------------------------------------------------------------------------
(* Overlapping createEnrollment calls: split between the pre-checks and *)
(* newEnrollment.save()                                                 *)

(* an insert into the Enrollment collection without its unique index *)
insertEnrollmentNoIndex(doc) ==
  [ok |-> TRUE, enrollments |-> (nextOid :> doc) @@ enrollments]

(* newEnrollment.save(): enrollmentSchema.index({ student, class, academicYear }, unique) *)
insertEnrollment(doc) ==
  IF FindEnrollment(doc.student, doc.class, doc.academicYear) # {}
  THEN [ok |-> FALSE, enrollments |-> enrollments]
  ELSE [ok |-> TRUE, enrollments |-> (nextOid :> doc) @@ enrollments]

(* the academic year of the overlapping requests *)
RaceYear == 2024

(* createEnrollment up to the last of its pre-checks *)
BeginCreateEnrollment(c, studentId, classId) ==
  LET r == createEnrollment(studentId, classId, <<>>, RaceYear) IN
  /\ inflight[c].pc = "idle"
  /\ IF r.status # 201
     THEN /\ last' = ReqResp("createEnrollment", NoId, studentId,
                             [NoReq EXCEPT !.class = classId, !.year = RaceYear],
                             r.status, r.msg)
          /\ UNCHANGED inflight
     ELSE /\ inflight' = [inflight EXCEPT ![c] = [Quiet EXCEPT !.pc = "checked",
                                                   !.op = "createEnrollment",
                                                   !.id = studentId, !.arg = classId]]
          /\ UNCHANGED last
  /\ UNCHANGED <<authVars, users, classes, nextClassId, docVars>>

(* createEnrollment from new Enrollment(...) to the answer *)
FinishCreateEnrollment(c) ==
  LET f == inflight[c]
      r == insertEnrollment([student |-> f.id, class |-> f.arg, subjects |-> <<>>,
                             academicYear |-> RaceYear, status |-> "ACTIVE"])
      req == [NoReq EXCEPT !.class = f.arg, !.year = RaceYear]
  IN /\ f.pc = "checked"
     /\ f.op = "createEnrollment"
     /\ ~r.ok \/ nextOid <= MaxDocs
     /\ inflight' = [inflight EXCEPT ![c] = Quiet]
     /\ enrollments' = r.enrollments
     /\ nextOid' = IF r.ok THEN nextOid + 1 ELSE nextOid
     /\ last' = IF r.ok
                THEN ReqResp("createEnrollment", nextOid, f.id, req, 201,
                             "Enrollment created successfully")
                ELSE ReqResp("createEnrollment", NoId, f.id, req, StorageErrorStatus,
                             DuplicateKey)
     /\ UNCHANGED <<authVars, users, classes, nextClassId, subjects, exams, grades,
                    announcements>>

NextEnrollRace ==
  \/ \E m \in Members : CreateMember(m[1], m[2])
  \/ \E t \in DOMAIN users : CreateClass("A", t, NoCapacity)
  \/ \E c \in Calls, st \in KnownUserIds, cl \in ClassIds : BeginCreateEnrollment(c, st, cl)
  \/ \E c \in Calls : FinishCreateEnrollment(c)

SpecEnrollRace == Init /\ [][NextEnrollRace]_vars

----------------------------------------------------------------------------
(* Membership over several classes *)

(* ClassService.createClass, for a school of more than MaxClasses classes *)
OpenClass(section, classTeacher) ==
  LET r == createClass("Grade 1", section, 2024, classTeacher, NoCapacity) IN
  /\ r.status # 201 \/ nextClassId <= MaxClasses + 1
  /\ classes' = r.classes
  /\ nextClassId' = IF r.status = 201 THEN nextClassId + 1 ELSE nextClassId
  /\ last' = DocResp("createClass", IF r.status = 201 THEN nextClassId ELSE NoId,
                     classTeacher, r.status, r.msg)
  /\ UNCHANGED <<users, nextId, now, ticks, held, nextToken, rp, docVars, inflight>>

SeveralClassIds == 1..(MaxClasses + 1)

NextMembership ==
  \/ \E m \in Members : CreateMember(m[1], m[2])
  \/ \E sec \in {"A", "B"}, t \in DOMAIN users : OpenClass(sec, t)
  \/ \E id \in SeveralClassIds, st \in KnownUserIds : AddStudentToClass(id, st)
  \/ \E id \in SeveralClassIds, st \in KnownUserIds : RemoveStudentFromClass(id, st)

SpecMembership == Init /\ [][NextMembership]_vars

----------------------------------------------------------------------------
(* Reading announcements *)

(* every announcement of the model has this title; a search is a regular *)
(* expression matched against title and body, ignoring case             *)
AnnouncementTitle == "Notice"

SearchMatches(search) == search \in {"notice", "NOTICE"}

(* the query parameters of GET /announcements that the filter reads *)
NoQuery == [audience |-> Absent, search |-> Absent]

(* { audience: 'ALL' }, { audience: 'ROLE', targets: userId }, { audience: 'USER', targets: userId } *)
AddressedTo(doc, userId) ==
  \/ doc.audience = "ALL"
  \/ doc.audience \in {"ROLE", "USER"} /\ Includes(doc.targets, userId)

(* expiresAt missing, null or later than new Date() *)
NotExpired(doc) == doc.expiresAt = NoTime \/ doc.expiresAt > now

(* getAnnouncements that shows every status to every caller *)
getAnnouncementsAnyStatus(query, userRole, userId) ==
  {a \in DOMAIN announcements :
     /\ query.audience # Absent => announcements[a].audience = query.audience
     /\ IF query.search # Absent THEN SearchMatches(query.search)
        ELSE userRole # "ADMIN" => AddressedTo(announcements[a], userId)
     /\ NotExpired(announcements[a])}

(* AnnouncementService.getAnnouncements: the ids of the documents the filter *)
(* selects; query.search assigns filter.$or again                           *)
getAnnouncements(query, userRole, userId) ==
  {a \in DOMAIN announcements :
     /\ userRole # "ADMIN" => announcements[a].status = "PUBLISHED"
     /\ query.audience # Absent => announcements[a].audience = query.audience
     /\ IF query.search # Absent THEN SearchMatches(query.search)
        ELSE userRole # "ADMIN" => AddressedTo(announcements[a], userId)
     /\ NotExpired(announcements[a])}

(* AnnouncementService.getAnnouncementById *)
getAnnouncementById(id, userRole, userId) ==
  IF /\ id \in DOMAIN announcements
     /\ userRole # "ADMIN" =>
           /\ announcements[id].status = "PUBLISHED"
           /\ AddressedTo(announcements[id], userId)
           /\ NotExpired(announcements[id])
  THEN [status |-> 200, msg |-> "", data |-> {id}]
  ELSE [status |-> 404, msg |-> "Announcement not found", data |-> {}]

ReadResp(op, caller, query, doc, status, msg, data) ==
  [DataResp(op, caller, status, msg, caller.userId, data) EXCEPT
     !.doc = doc, !.req = [NoReq EXCEPT !.audience = query.audience,
                                        !.search = query.search]]

GetAnnouncements(query, caller) ==
  /\ last' = ReadResp("getAnnouncements", caller, query, NoId, 200, "",
                      getAnnouncements(query, caller.role, caller.userId))
  /\ UNCHANGED <<authVars, users, classes, nextClassId, docVars, inflight>>

GetAnnouncementById(id, caller) ==
  LET r == getAnnouncementById(id, caller.role, caller.userId) IN
  /\ last' = ReadResp("getAnnouncementById", caller, NoQuery, id, r.status, r.msg, r.data)
  /\ UNCHANGED <<authVars, users, classes, nextClassId, docVars, inflight>>

(* createAnnouncement for everyone, with an expiresAt in the body *)
CreateExpiringAnnouncement(createdBy, status, expiresAt) ==
  LET r == createAnnouncement(createdBy, "ALL", <<>>, status) IN
  /\ r.status # 201 \/ nextOid <= MaxAnnouncements + 1
  /\ announcements' = IF r.status = 201
                      THEN [r.announcements EXCEPT ![nextOid].expiresAt = expiresAt]
                      ELSE r.announcements
  /\ nextOid' = IF r.status = 201 THEN nextOid + 1 ELSE nextOid
  /\ last' = ReqResp("createAnnouncement", IF r.status = 201 THEN nextOid ELSE NoId, createdBy,
                     [NoReq EXCEPT !.audience = "ALL"], r.status, r.msg)
  /\ UNCHANGED <<authVars, users, classes, nextClassId, subjects, enrollments, exams,
                 grades, inflight>>

Queries == [audience : {Absent, "USER"}, search : {Absent, "notice"}]

NextRead ==
  \/ \E m \in AnnounceMembers : CreateMember(m[1], m[2])
  \/ \E by \in DOMAIN users, st \in {Absent, "PUBLISHED"}, e \in {NoTime, AccessTtl} :
        CreateExpiringAnnouncement(by, st, e)
  \/ \E by \in DOMAIN users, aud \in {"USER", "ROLE"}, t \in DOMAIN users :
        CreateAnnouncement(by, aud, <<t>>, "PUBLISHED")
  \/ \E q \in Queries, c \in Callers : GetAnnouncements(q, c)
  \/ \E id \in AnnouncementIds, c \in Callers : GetAnnouncementById(id, c)
  \/ \E d \in {AccessTtl} : Tick(d)

SpecRead == Init /\ [][NextRead]_vars

----------------------------------------------------------------------------
(* Overlapping createGrade and deleteExam calls, split at their awaits *)

(* the marks of the overlapping createGrade requests *)
RaceMarks == 52

(* createGrade from Grade.findOne to the look-up of gradedBy *)
gradeChecks(examId, studentId, marks, gradedBy) ==
  IF FindGrade(examId, studentId) # {}
  THEN [status |-> 400, msg |-> "Grade already exists for this student in this exam"]
  ELSE IF examId \notin DOMAIN exams
  THEN [status |-> 404, msg |-> "Exam not found"]
  ELSE IF studentId \notin DOMAIN users
  THEN [status |-> 404, msg |-> "Student not found"]
  ELSE IF users[studentId].role # "STUDENT"
  THEN [status |-> 400, msg |-> "User must have STUDENT role"]
  ELSE IF marks > exams[examId].maxMarks
  THEN [status |-> 400, msg |-> "Marks cannot exceed maximum marks for this exam"]
  ELSE IF gradedBy \notin DOMAIN users
  THEN [status |-> 404, msg |-> "User not found"]
  ELSE [status |-> 0, msg |-> ""]

BeginCreateGrade(c, examId, studentId, gradedBy) ==
  LET r == gradeChecks(examId, studentId, RaceMarks, gradedBy) IN
  /\ inflight[c].pc = "idle"
  /\ IF r.status # 0
     THEN /\ last' = ReqResp("createGrade", examId, studentId,
                             [NoReq EXCEPT !.marks = RaceMarks], r.status, r.msg)
          /\ UNCHANGED inflight
     ELSE /\ inflight' = [inflight EXCEPT ![c] = [Quiet EXCEPT !.pc = "checked",
                                                   !.op = "createGrade", !.id = examId,
                                                   !.arg = studentId, !.by = gradedBy]]
          /\ UNCHANGED last
  /\ UNCHANGED <<authVars, users, classes, nextClassId, docVars>>

(* createGrade from new Grade(...) to the answer; the unique index on *)
(* (exam, student) guards the insert                                  *)
FinishCreateGrade(c) ==
  LET f == inflight[c]
      newGrade == [exam |-> f.id, student |-> f.arg, marks |-> RaceMarks, grade |-> Absent,
                   gradedBy |-> f.by]
      saved == saveGrade(nextOid, newGrade, TRUE)
      stored == saved.ok /\ FindGrade(f.id, f.arg) = {}
  IN /\ f.pc = "checked"
     /\ f.op = "createGrade"
     /\ ~stored \/ nextOid <= MaxDocs + 1
     /\ inflight' = [inflight EXCEPT ![c] = Quiet]
     /\ grades' = IF stored THEN saved.grades ELSE grades
     /\ nextOid' = IF stored THEN nextOid + 1 ELSE nextOid
     /\ last' = ReqResp("createGrade", f.id, f.arg, [NoReq EXCEPT !.marks = RaceMarks],
                        IF stored THEN 201
                        ELSE IF saved.ok THEN StorageErrorStatus ELSE ValidationErrorStatus,
                        IF stored THEN "Grade created successfully"
                        ELSE IF saved.ok THEN DuplicateKey ELSE saved.msg)
     /\ UNCHANGED <<authVars, users, classes, nextClassId, subjects, enrollments, exams,
                    announcements>>

(* deleteExam: Exam.findById *)
BeginDeleteExam(c, id) ==
  /\ inflight[c].pc = "idle"
  /\ IF id \notin DOMAIN exams
     THEN /\ last' = DocResp("deleteExam", id, NoId, 404, "Exam not found")
          /\ UNCHANGED inflight
     ELSE /\ inflight' = [inflight EXCEPT ![c] = [Quiet EXCEPT !.pc = "found",
                                                   !.op = "deleteExam", !.id = id]]
          /\ UNCHANGED last
  /\ UNCHANGED <<authVars, users, classes, nextClassId, docVars>>

(* deleteExam: Grade.deleteMany({ exam: id }) *)
DeleteExamGrades(c) ==
  LET f == inflight[c] IN
  /\ f.pc = "found"
  /\ f.op = "deleteExam"
  /\ inflight' = [inflight EXCEPT ![c].pc = "gradesDeleted"]
  /\ grades' = [g \in {h \in DOMAIN grades : grades[h].exam # f.id} |-> grades[g]]
  /\ UNCHANGED <<authVars, users, classes, nextClassId, last, subjects, enrollments, exams,
                 announcements, nextOid>>

(* deleteExam: Exam.findByIdAndDelete(id), then the answer *)
FinishDeleteExam(c) ==
  LET f == inflight[c] IN
  /\ f.pc = "gradesDeleted"
  /\ f.op = "deleteExam"
  /\ inflight' = [inflight EXCEPT ![c] = Quiet]
  /\ exams' = [x \in DOMAIN exams \ {f.id} |-> exams[x]]
  /\ last' = DocResp("deleteExam", f.id, NoId, 200, "Exam deleted successfully")
  /\ UNCHANGED <<authVars, users, classes, nextClassId, subjects, enrollments, grades,
                 announcements, nextOid>>

NextGradeRace ==
  \/ \E m \in EnrollMembers : CreateMember(m[1], m[2])
  \/ \E t \in DOMAIN users : CreateClass("A", t, NoCapacity)
  \/ \E c \in ClassIds, t \in DOMAIN users : CreateSubject("MATH", c, t)
  \/ \E c \in ClassIds, x \in SubjectIds, u \in DOMAIN users : CreateExam(c, x, 100, u)
  \/ \E c \in Calls, e \in ExamIds, st \in KnownUserIds, by \in DOMAIN users :
        BeginCreateGrade(c, e, st, by)
  \/ \E c \in Calls : FinishCreateGrade(c)
  \/ \E c \in Calls, e \in ExamIds : BeginDeleteExam(c, e)
  \/ \E c \in Calls : DeleteExamGrades(c)
  \/ \E c \in Calls : FinishDeleteExam(c)

SpecGradeRace == Init /\ [][NextGradeRace]_vars

----------------------------------------------------------------------------
(* Properties of login, register and refresh *)

StoredWith(email) == {id \in DOMAIN users : users[id].email = Lower(email)}

ValidCredentials(email, password) ==
  \E id \in StoredWith(email) :
     /\ users[id].status = "ACTIVE"
     /\ users[id].passwordHash = hashPassword(password)

\* C1: login issues a token pair if and only if the email resolves to a stored
\* ACTIVE user whose hash matches the password; every other login fails with
\* 401, issues no tokens and leaves the store (lastLogin included) unchanged.
C1_LoginIffValid ==
  [][last'.op = "login" =>
       /\ (last'.out # NoPair) <=> ValidCredentials(last'.email, last'.pw)
       /\ (last'.out # NoPair) <=> (last'.status = 200)
       /\ (last'.out = NoPair) => (last'.status = 401 /\ users' = users)]_vars

C1_Witness ==
  /\ last.op = "login"
  /\ last.status = 200
  /\ last.out # NoPair
  /\ users[last.uid].lastLogin = now

\* C2 (as claimed): an unknown email and a stored user of any status with a
\* wrong password both get the unknown-email response.
C2_Original ==
  (/\ last.op = "login"
   /\ \/ StoredWith(last.email) = {}
      \/ \E id \in StoredWith(last.email) :
            users[id].passwordHash # hashPassword(last.pw))
  => (last.status = 401 /\ last.msg = "Invalid email or password")

\* C2 (amended): an unknown email and a stored ACTIVE user with a wrong password
\* get the identical status and message; a stored user that is not ACTIVE gets
\* status 401 with the message 'Account is not active' whatever the password.
C2_SameErrorForActive ==
  /\ (/\ last.op = "login"
      /\ \/ StoredWith(last.email) = {}
         \/ \E id \in StoredWith(last.email) :
               /\ users[id].status = "ACTIVE"
               /\ users[id].passwordHash # hashPassword(last.pw))
     => (last.status = 401 /\ last.msg = "Invalid email or password")
  /\ (/\ last.op = "login"
      /\ \E id \in StoredWith(last.email) : users[id].status # "ACTIVE")
     => (last.status = 401 /\ last.msg = "Account is not active")

C2_Witness ==
  /\ last.op = "login"
  /\ last.status = 401
  /\ \E id \in StoredWith(last.email) :
        /\ users[id].status = "ACTIVE"
        /\ users[id].passwordHash # hashPassword(last.pw)

\* C3: register with an email that belongs to a stored user fails with the
\* duplicate-email error (400), creates no user, issues no tokens and leaves
\* the store unchanged.
C3_DuplicateEmailRejected ==
  [][(last'.op = "register" /\ StoredWith(last'.email) # {}) =>
       /\ last'.status = 400
       /\ last'.msg = "User with this email already exists"
       /\ last'.out = NoPair
       /\ users' = users
       /\ nextId' = nextId]_vars

C3_Witness ==
  /\ last.op = "register"
  /\ last.status = 400
  /\ StoredWith(last.email) # {}
  /\ last.email \notin {users[id].email : id \in DOMAIN users}

\* C4: register with an email not in the store succeeds, stores the new user
\* with status ACTIVE, and the access and refresh token carry the same userId,
\* email and role, those of the newly stored user.
C4_RegisterTokensMatchUser ==
  [][(last'.op = "register" /\ StoredWith(last'.email) = {}) =>
       /\ last'.status = 201
       /\ last'.uid \notin DOMAIN users
       /\ last'.uid \in DOMAIN users'
       /\ users'[last'.uid].status = "ACTIVE"
       /\ users'[last'.uid].email = Lower(last'.email)
       /\ last'.out.accessToken.cls = "access"
       /\ last'.out.refreshToken.cls = "refresh"
       /\ PayloadOf(last'.out.accessToken) = PayloadOf(last'.out.refreshToken)
       /\ PayloadOf(last'.out.accessToken) =
            TokenPayload(last'.uid, users'[last'.uid].email, users'[last'.uid].role)]_vars

C4_Witness ==
  /\ last.op = "register"
  /\ last.status = 201
  /\ last.email # Lower(last.email)
  /\ last.out.refreshToken.email = users[last.uid].email

\* C5 (as claimed): every successful refresh yields a pair whose userId, email
\* and role equal the identity carried by the presented token.
C5_Original ==
  (last.op = "refresh" /\ last.status = 200) =>
     /\ PayloadOf(last.out.accessToken) = PayloadOf(last.tok)
     /\ PayloadOf(last.out.refreshToken) = PayloadOf(last.tok)

\* C5 (amended): every successful refresh yields a new pair whose two tokens
\* carry the userId of the presented token and the email and role stored for
\* that user at the time of the refresh.
C5_RefreshCarriesStoredIdentity ==
  (last.op = "refresh" /\ last.status = 200) =>
     /\ last.tok.userId \in DOMAIN users
     /\ PayloadOf(last.out.accessToken) = PayloadOf(last.out.refreshToken)
     /\ last.out.refreshToken.userId = last.tok.userId
     /\ last.out.refreshToken.email = users[last.tok.userId].email
     /\ last.out.refreshToken.role = users[last.tok.userId].role

C5_Witness ==
  /\ last.op = "refresh"
  /\ last.status = 200
  /\ PayloadOf(last.out.refreshToken) # PayloadOf(last.tok)

\* C6: refresh fails with 'Invalid refresh token' (401) and issues no tokens
\* whenever the token fails verification, its user is no longer stored, or that
\* user is not ACTIVE at the time of the call.
C6_RefreshRejected ==
  (/\ last.op = "refresh"
   /\ \/ ~verifyRefreshToken(last.tok)
      \/ last.tok.userId \notin DOMAIN users
      \/ users[last.tok.userId].status # "ACTIVE")
  => (last.status = 401 /\ last.msg = "Invalid refresh token" /\ last.out = NoPair)

C6_Witness ==
  /\ last.op = "refresh"
  /\ last.status = 401
  /\ verifyRefreshToken(last.tok)
  /\ last.tok.userId \in DOMAIN users
  /\ users[last.tok.userId].status # "ACTIVE"

----------------------------------------------------------------------------
(* Properties of the password reset *)

\* C7 (as claimed): forgotPassword answers success for every email, stored or
\* not, in every outcome of the mail transport.
C7_Original ==
  last.op = "forgotPassword" => last.status = 200

Expired(token) ==
  \E id \in DOMAIN users :
     /\ users[id].resetPasswordToken = token
     /\ users[id].resetPasswordExpires <= now

\* C8: resetPassword called with a token whose stored expiry is not in the
\* future fails with the invalid-or-expired error (400) although the token
\* matches a stored user, and changes nothing in the store.
C8_ExpiredTokenRejected ==
  [][(last'.op = "resetPassword" /\ Expired(last'.reset)) =>
       /\ last'.status = 400
       /\ last'.msg = "Invalid or expired reset token"
       /\ users' = users
       /\ rp' = rp]_vars

C8_Witness ==
  /\ last.op = "resetPassword"
  /\ last.status = 400
  /\ Expired(last.reset)

\* C9 (as claimed): no reachable state has the password replaced by a
\* resetPassword call while the token that call matched is still accepted, and
\* once a call has completed its token is no longer accepted.
C9_Original ==
  /\ \A c \in Calls : rp[c].pc = "updated" => findResetUser(rp[c].token) = {}
  /\ last.op = "resetPassword.done" => findResetUser(last.reset) = {}

----------------------------------------------------------------------------
(* Properties of the role guard *)

DeclaredRoles(op) ==
  CASE op = "POST /classes" -> requireTeacher
    [] op = "DELETE /classes/:id" -> requireAdmin
    [] op = "PATCH /users/:id" -> requireAdmin
    [] op = "DELETE /users/:id" -> requireAdmin

GuardedRoutes == {"POST /classes", "DELETE /classes/:id", "PATCH /users/:id", "DELETE /users/:id"}

\* C10 (as claimed): on a route that declares a role requirement, a request
\* with no identity is answered 401 and a request whose role is outside the
\* declared set is answered 403, and in both cases nothing in the store changes.
C10_Original ==
  [][last'.op \in GuardedRoutes =>
       /\ last'.caller = NoIdentity =>
            (last'.status = 401 /\ users' = users /\ classes' = classes)
       /\ (last'.caller # NoIdentity /\ last'.caller.role \notin DeclaredRoles(last'.op)) =>
            (last'.status = 403 /\ users' = users /\ classes' = classes)]_vars

UsersRoutes == {"GET /users", "GET /users/:id", "POST /users", "PATCH /users/:id",
                "DELETE /users/:id"}

\* C11 (as claimed): every Users endpoint is served only to a caller whose role
\* is ADMIN: a request of any other caller is never answered with success, never
\* changes the store and never carries another user's record.
C11_Original ==
  [][(last'.op \in UsersRoutes /\ last'.caller # NoIdentity /\ last'.caller.role # "ADMIN") =>
       /\ last'.status \notin {200, 201}
       /\ users' = users
       /\ last'.data \subseteq {last'.caller.userId}]_vars

----------------------------------------------------------------------------
(* Properties of the class service *)

\* C12 (as claimed): in every state reached by createClass, updateClass,
\* addStudentToClass and removeStudentFromClass run one after another, each
\* class has at most as many students as its capacity.
C12_Original ==
  \A c \in DOMAIN classes : Len(classes[c].students) <= classes[c].capacity

Addable(classId, studentId) ==
  /\ classId \in DOMAIN classes
  /\ studentId \in DOMAIN users
  /\ users[studentId].role = "STUDENT"

\* C13: addStudentToClass of a STUDENT user who is not yet in the list succeeds
\* and lengthens the list by one while the list is shorter than the capacity,
\* and fails with the capacity error (400), list unchanged, once the list has
\* reached the capacity; for a student already in the list it fails with the
\* already-enrolled error and no student ever appears twice in a list.
C13_CapacityAndNoDuplicate ==
  [][/\ \A c \in DOMAIN classes' : \A i, j \in 1..Len(classes'[c].students) :
          classes'[c].students[i] = classes'[c].students[j] => i = j
     /\ (last'.op = "addStudentToClass" /\ Addable(last'.doc, last'.uid)) =>
       LET cls == classes[last'.doc] IN
       IF Includes(cls.students, last'.uid)
       THEN /\ last'.status = 400
            /\ last'.msg = "Student is already enrolled in this class"
            /\ classes' = classes
       ELSE IF Len(cls.students) < cls.capacity
       THEN /\ last'.status = 200
            /\ classes'[last'.doc].students = Append(cls.students, last'.uid)
       ELSE /\ last'.status = 400
            /\ last'.msg = "Class is at maximum capacity"
            /\ classes' = classes]_vars

C13_Witness ==
  /\ last.op = "addStudentToClass"
  /\ last.status = 400
  /\ last.msg = "Class is at maximum capacity"
  /\ Addable(last.doc, last.uid)
  /\ Len(classes[last.doc].students) = classes[last.doc].capacity
  /\ ~Includes(classes[last.doc].students, last.uid)

\* C14: deleteClass on a class whose student list is non-empty fails with 400
\* and leaves the class stored and unchanged; deleteClass removes a class only
\* when its student list is empty.
C14_DeleteOnlyWhenEmpty ==
  [][last'.op = "deleteClass" =>
       /\ (last'.doc \in DOMAIN classes /\ Len(classes[last'.doc].students) > 0) =>
             /\ last'.status = 400
             /\ last'.msg = "Cannot delete class with enrolled students"
             /\ classes' = classes
       /\ classes' # classes =>
             /\ last'.doc \in DOMAIN classes
             /\ Len(classes[last'.doc].students) = 0
             /\ DOMAIN classes' = DOMAIN classes \ {last'.doc}]_vars

C14_Witness ==
  /\ last.op = "deleteClass"
  /\ last.status = 400
  /\ last.doc \in DOMAIN classes
  /\ Len(classes[last.doc].students) > 0

----------------------------------------------------------------------------
(* Properties of the enrollment service *)

\* C15: while an enrollment for (student, class, academicYear) is stored, every
\* createEnrollment with the same triple fails with the conflict error (400)
\* and creates nothing; in every reachable state no two enrollments share the
\* same (student, class, academicYear).
C15_UniqueTriple ==
  [][/\ \A e1, e2 \in DOMAIN enrollments' :
          (/\ enrollments'[e1].student = enrollments'[e2].student
           /\ enrollments'[e1].class = enrollments'[e2].class
           /\ enrollments'[e1].academicYear = enrollments'[e2].academicYear) => e1 = e2
     /\ (/\ last'.op = "createEnrollment"
         /\ FindEnrollment(last'.uid, last'.req.class, last'.req.year) # {}) =>
            /\ last'.status = 400
            /\ last'.msg = "Student is already enrolled in this class for this academic year"
            /\ enrollments' = enrollments]_vars

C15_Witness ==
  /\ last.op = "createEnrollment"
  /\ last.status = 400
  /\ FindEnrollment(last.uid, last.req.class, last.req.year) # {}
  /\ Cardinality(DOMAIN enrollments) >= 1

\* C16 (as claimed): in every reachable state each enrollment's subject list
\* holds only subjects that are stored and belong to the enrollment's class.
C16_Original ==
  \A e \in DOMAIN enrollments : \A x \in Range(enrollments[e].subjects) :
     x \in DOMAIN subjects /\ subjects[x].class = enrollments[e].class

----------------------------------------------------------------------------
(* Properties of the grade service *)

OverMax(examId, marks) == examId \in DOMAIN exams /\ marks > exams[examId].maxMarks

\* C17 (as claimed): createGrade with marks greater than the maxMarks of the
\* exam it names always fails with 400.
C17_Original ==
  (last.op = "createGrade" /\ OverMax(last.doc, last.req.marks)) => last.status = 400

\* C17 (amended): createGrade with marks greater than the maxMarks of the exam
\* it names always fails before any write: no grade is created and no other
\* document changes; the status is 400, with the marks error when the student
\* is a stored STUDENT user without a grade for the exam, and 404 when the
\* student is not stored.
C17_OverMaxNeverWrites ==
  [][(last'.op = "createGrade" /\ OverMax(last'.doc, last'.req.marks)) =>
       /\ grades' = grades
       /\ UNCHANGED <<users, classes, subjects, enrollments, exams, announcements, nextOid>>
       /\ IF last'.uid \notin DOMAIN users
          THEN last'.status = 404
          ELSE last'.status = 400
       /\ (/\ last'.uid \in DOMAIN users
           /\ users[last'.uid].role = "STUDENT"
           /\ FindGrade(last'.doc, last'.uid) = {}) =>
              last'.msg = "Marks cannot exceed maximum marks for this exam"]_vars

C17_Witness ==
  /\ last.op = "createGrade"
  /\ OverMax(last.doc, last.req.marks)
  /\ last.status = 400
  /\ last.msg = "Marks cannot exceed maximum marks for this exam"

\* C18 (as claimed): a createGrade that passes all checks (stored exam, stored
\* STUDENT user without a grade for the exam, 0 <= marks <= maxMarks, graded
\* by a stored user) stores a grade whose letter is the breakpoint function of the
\* percentage, 95/100 giving A+ and 52/100 giving C-.
C18_Original ==
  [][(/\ last'.op = "createGrade"
      /\ last'.doc \in DOMAIN exams
      /\ last'.req.marks <= exams[last'.doc].maxMarks
      /\ last'.uid \in DOMAIN users
      /\ users[last'.uid].role = "STUDENT"
      /\ FindGrade(last'.doc, last'.uid) = {}) =>
       /\ letterGrade(95, 100) = "A+"
       /\ letterGrade(52, 100) = "C-"
       /\ last'.status = 201
       /\ \E g \in DOMAIN grades' \ DOMAIN grades :
             /\ grades'[g].marks = last'.req.marks
             /\ grades'[g].grade = letterGrade(last'.req.marks, exams[last'.doc].maxMarks)]_vars

----------------------------------------------------------------------------
(* Properties of the announcement service *)

AuthorOps == {"updateAnnouncement", "deleteAnnouncement", "publishAnnouncement",
              "archiveAnnouncement"}

\* C20: updateAnnouncement, deleteAnnouncement, publishAnnouncement and
\* archiveAnnouncement change an announcement only when the caller is its
\* creator or has role ADMIN; for any other caller each fails with 403 and the
\* stored announcement (status and publishedAt included) is unchanged.
C20_OnlyCreatorOrAdmin ==
  [][(last'.op \in AuthorOps /\ last'.doc \in DOMAIN announcements) =>
       LET mine == \/ last'.caller.role = "ADMIN"
                   \/ announcements[last'.doc].createdBy = last'.caller.userId
       IN /\ ~mine => (last'.status = 403 /\ announcements' = announcements)
          /\ announcements' # announcements => mine]_vars

C20_Witness ==
  /\ last.op = "publishAnnouncement"
  /\ last.status = 403
  /\ last.doc \in DOMAIN announcements
  /\ announcements[last.doc].status = "DRAFT"
  /\ announcements[last.doc].createdBy # last.caller.userId

----------------------------------------------------------------------------
(* Properties of publishedAt *)

\* C21 (as claimed): publishedAt is set when an announcement first becomes
\* PUBLISHED and keeps that value through every later operation (a repeated
\* publish, an archive, a re-publish); every PUBLISHED announcement has
\* publishedAt set.
C21_Original ==
  [][\A id \in DOMAIN announcements' :
       /\ announcements'[id].status = "PUBLISHED" => announcements'[id].publishedAt # NoTime
       /\ (id \in DOMAIN announcements /\ announcements[id].publishedAt # NoTime) =>
             announcements'[id].publishedAt = announcements[id].publishedAt]_vars

----------------------------------------------------------------------------
(* Properties of the stored users *)

\* C22 (as claimed): the role stored for a user never changes after the user
\* is created, whatever register, login, updateUser and deleteUser calls follow.
C22_Original ==
  [][\A id \in DOMAIN users \cap DOMAIN users' : users'[id].role = users[id].role]_vars

\* C23: in every state reachable by any interleaving of register, createUser
\* and updateUser, calls on the same email that overlap included, no two stored
\* users have emails that are equal ignoring letter case.
C23_EmailsUnique ==
  \A i, j \in DOMAIN users : i # j => Lower(users[i].email) # Lower(users[j].email)

C23_Witness ==
  /\ last.op \in {"register", "createUser"}
  /\ last.status = StorageErrorStatus
  /\ FindByEmail(last.email) # {}
  /\ \E c \in Calls : inflight[c].pc = "idle"

----------------------------------------------------------------------------
(* Properties of overlapping calls *)

\* C24: two overlapping addStudentToClass calls for different students on a
\* class with one free slot can both pass the capacity check before either
\* saves, and both persist: the save of a call that passed its checks pushes
\* its student onto the stored list whatever that list holds by then, so a
\* state is reached where the list is longer than the capacity.
C24_SaveAfterCheckAlwaysPushes ==
  [][\A c \in Calls :
       (/\ inflight[c].pc = "checked" /\ inflight[c].op = "addStudentToClass"
        /\ inflight'[c].pc = "idle"
        /\ inflight[c].id \in DOMAIN classes) =>
          /\ classes'[inflight[c].id].students =
                Append(classes[inflight[c].id].students, inflight[c].arg)
          /\ last'.status = 200]_vars

C24_Witness ==
  /\ last.op = "addStudentToClass"
  /\ last.status = 200
  /\ \E id \in DOMAIN classes :
        /\ Len(classes[id].students) > classes[id].capacity
        /\ Cardinality(Range(classes[id].students)) = Len(classes[id].students)

\* C25: two overlapping createEnrollment calls with the same student, class and
\* academicYear can both pass the find-then-compare pre-check; in every
\* interleaving at most one enrollment with that key is stored, and the call
\* that writes second ends with an error (the domain conflict error or the
\* duplicate-key error of the storage) and stores nothing.
C25_AtMostOnePerKey ==
  [][/\ \A i, j \in DOMAIN enrollments' :
          (/\ enrollments'[i].student = enrollments'[j].student
           /\ enrollments'[i].class = enrollments'[j].class
           /\ enrollments'[i].academicYear = enrollments'[j].academicYear) => i = j
     /\ \A c \in Calls :
          (/\ inflight[c].pc = "checked" /\ inflight[c].op = "createEnrollment"
           /\ inflight'[c].pc = "idle"
           /\ FindEnrollment(inflight[c].id, inflight[c].arg, RaceYear) # {}) =>
             /\ enrollments' = enrollments
             /\ last'.status \in {400, StorageErrorStatus}]_vars

C25_Witness ==
  /\ last.op = "createEnrollment"
  /\ last.status = StorageErrorStatus
  /\ Cardinality(FindEnrollment(last.uid, last.req.class, last.req.year)) = 1

----------------------------------------------------------------------------
(* Properties of the stored grades *)

----------------------------------------------------------------------------
(* Properties of the stored announcements *)

----------------------------------------------------------------------------
(* Properties of class membership *)

\* C28 (as claimed): after any sequence of addStudentToClass and
\* removeStudentFromClass over several classes, a student's meta.class is
\* class C exactly when the student is in C's student list, and a student is
\* in the student list of at most one class.
C28_Original ==
  \A u \in DOMAIN users :
     /\ \A c \in DOMAIN classes :
           (users[u].metaClass = c) <=> Includes(classes[c].students, u)
     /\ Cardinality({c \in DOMAIN classes : Includes(classes[c].students, u)}) <= 1

----------------------------------------------------------------------------
(* Properties of reading announcements *)

(* the announcements addressed to a caller who is not an admin *)
Addressed(userId) ==
  {a \in DOMAIN announcements :
     /\ announcements[a].status = "PUBLISHED"
     /\ NotExpired(announcements[a])
     /\ AddressedTo(announcements[a], userId)}

----------------------------------------------------------------------------
(* Properties of grades and the deletion of exams *)

====
